---- MODULE Spec2Model ----
(***************************************************************************)
(* School-grades agent: the authorization pipeline (LangGraph workflow of  *)
(* src/agent), the guardrails (src/guardrails), the tool layer (src/tools) *)
(* and the direct tool endpoints (src/api/routes.py), over a gradebook.    *)
(*                                                                         *)
(* Python values that are dynamically typed in the source (entity values,  *)
(* tool results) are tagged records [t |-> tag, v |-> payload], so that    *)
(* isinstance tests, "is None" tests and type errors are explicit.         *)
(***************************************************************************)
EXTENDS Integers, Sequences, FiniteSets, TLC

VARIABLES
    grades,   \* table avaliacoes: function  grade id -> row
    st,       \* AgentState of each pipeline run, with its position in the graph
    resp      \* response of the last direct (HTTP) tool call

vars == <<grades, st, resp>>

----------------------------------------------------------------------------
(* Python values *)

NoneV == [t |-> "none"]
IntV(n) == [t |-> "int", v |-> n]
StrV(s) == [t |-> "str", v |-> s]
BoolV(b) == [t |-> "bool", v |-> b]
FloatV(h) == [t |-> "float", v |-> h]      \* a float, in hundredths: 18.5 is FloatV(1850)
DictV(f) == [t |-> "dict", v |-> f]        \* f : function from key strings to values
ListV(s) == [t |-> "list", v |-> s]
EmptyDict == <<>>                          \* the function with empty domain

IsNone(x) == x.t = "none"
IsInt(x) == x.t = "int"
IsFloat(x) == x.t = "float"

\* Python truthiness of a value: None, 0, "", {} and [] are falsy
Truthy(x) ==
    CASE x.t = "none" -> FALSE
      [] x.t = "int" -> x.v # 0
      [] x.t = "float" -> x.v # 0
      [] x.t = "bool" -> x.v
      [] x.t = "str" -> x.v # ""
      [] x.t = "dict" -> DOMAIN x.v # {}
      [] x.t = "list" -> Len(x.v) > 0
      [] OTHER -> TRUE

\* dict.get(key) and dict.get(key, default) on a function with string keys
Get(d, k) == IF k \in DOMAIN d THEN d[k] ELSE NoneV
GetOr(d, k, dflt) == IF k \in DOMAIN d THEN d[k] ELSE dflt

\* d with d[k] = x  (adds the key when it is absent)
Put(d, k, x) == [kk \in DOMAIN d \cup {k} |-> IF kk = k THEN x ELSE d[kk]]

----------------------------------------------------------------------------
(* Strings: str.lower() and the substring test behind SQL ILIKE '%..%' *)

UpperChars == "ABCDEFGHIJKLMNOPQRSTUVWXYZÁÃÇÉÓ"
LowerChars == "abcdefghijklmnopqrstuvwxyzáãçéó"

LowerChar(c) ==
    IF \E i \in 1..Len(UpperChars) : SubSeq(UpperChars, i, i) = c
    THEN LET i == CHOOSE j \in 1..Len(UpperChars) : SubSeq(UpperChars, j, j) = c
         IN  SubSeq(LowerChars, i, i)
    ELSE c

RECURSIVE Lower(_)
Lower(s) == IF Len(s) = 0 THEN ""
            ELSE LowerChar(SubSeq(s, 1, 1)) \o Lower(SubSeq(s, 2, Len(s)))

IsSubstr(p, s) ==
    \E i \in 1..(Len(s) - Len(p) + 1) : SubSeq(s, i, i + Len(p) - 1) = p

\* column ILIKE '%pattern%'
ILike(column, pattern) == IsSubstr(Lower(pattern), Lower(column))

----------------------------------------------------------------------------
(* The system of record.  Users, subjects, classes and enrolments are      *)
(* created by administrative operations outside the pipeline and are fixed *)
(* here; only the grade table changes.  The population is the one of the   *)
(* fixture of tests/test_authorization.py (a teacher with id 1, students 2 *)
(* and 3 enrolled in class 1, subject 1), with short names, and a second   *)
(* teacher as in database/seed.py.                                         *)

UserTable ==
    (1 :> [id |-> 1, name |-> "Eva", role |-> "teacher"]) @@
    (2 :> [id |-> 2, name |-> "Ana", role |-> "student"]) @@
    (3 :> [id |-> 3, name |-> "Rui", role |-> "student"]) @@
    (4 :> [id |-> 4, name |-> "Ivo", role |-> "teacher"])

DisciplinaTable == (1 :> [id |-> 1, name |-> "Mat"])
TurmaTable == (1 :> [id |-> 1, name |-> "10A"])
AlunoTurma == {[user_id |-> 2, turma_id |-> 1], [user_id |-> 3, turma_id |-> 1]}

UserIds == DOMAIN UserTable
StudentIds == {u \in UserIds : UserTable[u].role = "student"}
TeacherIds == {u \in UserIds : UserTable[u].role = "teacher"}

SetMin(S) == CHOOSE x \in S : \A y \in S : x <= y
SetMax(S) == CHOOSE x \in S : \A y \in S : x >= y

\* db.query(T).filter(T.id == key).first(): a key that is None or not an
\* integer matches no row
RowIds(table, key) == IF IsInt(key) THEN {i \in DOMAIN table : i = key.v} ELSE {}

----------------------------------------------------------------------------
(* tools/authorization.py: AuthorizationService.  A raised exception is    *)
(* the field exc of the value an operator returns; "none" is a normal      *)
(* return.                                                                 *)

NoExc == "none"

\* AuthorizationService.get_user: the row of user_id, or InvalidUserError
\* a lookup that drops the filter on the id: .first() of the whole table
AuthorizationService_get_user_unfiltered(user_id) ==
    [exc |-> NoExc, user |-> UserTable[SetMin(DOMAIN UserTable)]]

AuthorizationService_get_user(user_id) ==
    IF user_id \in DOMAIN UserTable
    THEN [exc |-> NoExc, user |-> UserTable[user_id]]
    ELSE [exc |-> "InvalidUserError"]

get_user_role(user_id) ==
    LET u == AuthorizationService_get_user(user_id)
    IN  IF u.exc # NoExc THEN [exc |-> u.exc] ELSE [exc |-> NoExc, role |-> u.user.role]

is_teacher(user_id) ==
    LET r == get_user_role(user_id)
    IN  IF r.exc # NoExc THEN [exc |-> r.exc] ELSE [exc |-> NoExc, val |-> r.role = "teacher"]

\* the check of the role left out: any registered user passes
enforce_teacher_only_any_role(user_id) ==
    LET t == is_teacher(user_id)
    IN  IF t.exc # NoExc THEN t.exc ELSE NoExc

\* the exception enforce_teacher_only raises, or NoExc
enforce_teacher_only(user_id) ==
    LET t == is_teacher(user_id)
    IN  IF t.exc # NoExc THEN t.exc
        ELSE IF ~t.val THEN "TeacherOnlyError" ELSE NoExc

\* requester_id != target_student_id, the target being any Python value
IdDiffers(requester_id, target) == ~(IsInt(target) /\ target.v = requester_id)

\* the comparison of the ids turned round: a student is refused its own data
enforce_student_data_access_same_refused(requester_id, target_student_id) ==
    LET r == get_user_role(requester_id)
    IN  IF r.exc # NoExc THEN r.exc
        ELSE IF r.role = "teacher" THEN NoExc
        ELSE IF r.role = "student" /\ ~IdDiffers(requester_id, target_student_id)
             THEN "StudentAccessDenied"
             ELSE NoExc

\* the exception enforce_student_data_access raises, or NoExc
enforce_student_data_access(requester_id, target_student_id) ==
    LET r == get_user_role(requester_id)
    IN  IF r.exc # NoExc THEN r.exc
        ELSE IF r.role = "teacher" THEN NoExc
        ELSE IF r.role = "student" /\ IdDiffers(requester_id, target_student_id)
             THEN "StudentAccessDenied"
             ELSE NoExc

----------------------------------------------------------------------------
(* database/models.py: Avaliacao rows.  The column date is the logical     *)
(* time of creation (datetime.now() at insertion), which is the order of   *)
(* the autoincrement ids; updated_at is not read by any operation and is   *)
(* left out.                                                               *)

\* The outcome of a tool call: the exception raised (or NoExc), the value
\* returned, the grade table it leaves, and the tables it queried, in order.
Raise(exc, g, reads) == [exc |-> exc, result |-> NoneV, grades |-> g, reads |-> reads]
Return(result, g, reads) == [exc |-> NoExc, result |-> result, grades |-> g, reads |-> reads]

NextGradeId(g) == IF DOMAIN g = {} THEN 1 ELSE SetMax(DOMAIN g) + 1

\* Avaliacao.to_dict
to_dict(row) ==
    DictV([id |-> IntV(row.id),
           user_id |-> IntV(row.user_id),
           student_name |-> IF row.user_id \in DOMAIN UserTable
                            THEN StrV(UserTable[row.user_id].name) ELSE NoneV,
           disciplina_id |-> IntV(row.disciplina_id),
           disciplina_name |-> IF row.disciplina_id \in DOMAIN DisciplinaTable
                               THEN StrV(DisciplinaTable[row.disciplina_id].name) ELSE NoneV,
           turma_id |-> IntV(row.turma_id),
           turma_name |-> IF row.turma_id \in DOMAIN TurmaTable
                          THEN StrV(TurmaTable[row.turma_id].name) ELSE NoneV,
           modulo |-> StrV(row.modulo),
           descricao |-> StrV(row.descricao),
           valor |-> FloatV(row.valor),
           date |-> IntV(row.date),
           updated_by |-> IntV(row.updated_by)])

----------------------------------------------------------------------------
(* tools/grades_write.py *)

\* a range check that has the upper limit only
ValorOutOfRange_upper_only(valor) == valor.v > 2000

\* valor < 0 or valor > 20, the value being in hundredths
ValorOutOfRange(valor) == valor.v < 0 \/ valor.v > 2000

add_grade(g, teacher_id, student_id, disciplina_id, turma_id, modulo, descricao, valor) ==
    LET auth == enforce_teacher_only(teacher_id)
        students == RowIds(UserTable, student_id)
    IN  IF auth # NoExc THEN Raise(auth, g, <<"users">>)
        ELSE IF students = {} THEN Raise("ValidationError", g, <<"users", "users">>)
        ELSE IF UserTable[student_id.v].role # "student" THEN Raise("ValidationError", g, <<"users", "users">>)
        ELSE IF RowIds(DisciplinaTable, disciplina_id) = {} THEN Raise("ValidationError", g, <<"users", "users", "disciplinas">>)
        ELSE IF RowIds(TurmaTable, turma_id) = {} THEN Raise("ValidationError", g, <<"users", "users", "disciplinas", "turmas">>)
        ELSE IF ~IsFloat(valor) THEN Raise("TypeError", g, <<"users", "users", "disciplinas", "turmas">>)
        ELSE IF ValorOutOfRange(valor) THEN Raise("ValidationError", g, <<"users", "users", "disciplinas", "turmas">>)
        \* modulo and descricao are NOT NULL columns
        ELSE IF IsNone(modulo) \/ IsNone(descricao) THEN Raise("IntegrityError", g, <<"users", "users", "disciplinas", "turmas">>)
        ELSE LET id == NextGradeId(g)
                 avaliacao == [id |-> id,
                               user_id |-> student_id.v,
                               disciplina_id |-> disciplina_id.v,
                               turma_id |-> turma_id.v,
                               modulo |-> modulo.v,
                               descricao |-> descricao.v,
                               valor |-> valor.v,
                               date |-> id,
                               updated_by |-> teacher_id]
             IN  Return(DictV([success |-> BoolV(TRUE),
                               message |-> StrV("Grade added successfully for student "
                                                \o UserTable[student_id.v].name),
                               evaluation |-> to_dict(avaliacao)]),
                        (id :> avaliacao) @@ g,
                        <<"users", "users", "disciplinas", "turmas">>)

\* an update that leaves the audit field as it was
update_grade_no_stamp(g, teacher_id, grade_id, valor, modulo, descricao) ==
    LET auth == enforce_teacher_only(teacher_id)
    IN  IF auth # NoExc THEN Raise(auth, g, <<"users">>)
        ELSE IF RowIds(g, grade_id) = {} THEN Raise("ValidationError", g, <<"users", "avaliacoes">>)
        ELSE IF ~IsNone(valor) /\ ~IsFloat(valor) THEN Raise("TypeError", g, <<"users", "avaliacoes">>)
        ELSE IF ~IsNone(valor) /\ ValorOutOfRange(valor) THEN Raise("ValidationError", g, <<"users", "avaliacoes">>)
        ELSE LET old == g[grade_id.v]
                 avaliacao == [old EXCEPT
                                 !.valor = IF IsNone(valor) THEN @ ELSE valor.v,
                                 !.modulo = IF IsNone(modulo) THEN @ ELSE modulo.v,
                                 !.descricao = IF IsNone(descricao) THEN @ ELSE descricao.v]
             IN  Return(DictV([success |-> BoolV(TRUE),
                               message |-> StrV("Grade updated successfully"),
                               evaluation |-> to_dict(avaliacao)]),
                        [g EXCEPT ![grade_id.v] = avaliacao],
                        <<"users", "avaliacoes">>)

\* an update that writes the module and the description before it checks
\* the value
update_grade_late_check(g, teacher_id, grade_id, valor, modulo, descricao) ==
    LET auth == enforce_teacher_only(teacher_id)
    IN  IF auth # NoExc THEN Raise(auth, g, <<"users">>)
        ELSE IF RowIds(g, grade_id) = {} THEN Raise("ValidationError", g, <<"users", "avaliacoes">>)
        ELSE IF ~IsNone(valor) /\ ~IsFloat(valor) THEN Raise("TypeError", g, <<"users", "avaliacoes">>)
        ELSE LET old == g[grade_id.v]
                 written == [old EXCEPT
                               !.modulo = IF IsNone(modulo) THEN @ ELSE modulo.v,
                               !.descricao = IF IsNone(descricao) THEN @ ELSE descricao.v,
                               !.updated_by = teacher_id]
                 avaliacao == [written EXCEPT !.valor = IF IsNone(valor) THEN @ ELSE valor.v]
             IN  IF ~IsNone(valor) /\ ValorOutOfRange(valor)
                 THEN Raise("ValidationError", [g EXCEPT ![grade_id.v] = written],
                            <<"users", "avaliacoes">>)
                 ELSE Return(DictV([success |-> BoolV(TRUE),
                                    message |-> StrV("Grade updated successfully"),
                                    evaluation |-> to_dict(avaliacao)]),
                             [g EXCEPT ![grade_id.v] = avaliacao],
                             <<"users", "avaliacoes">>)

update_grade(g, teacher_id, grade_id, valor, modulo, descricao) ==
    LET auth == enforce_teacher_only(teacher_id)
    IN  IF auth # NoExc THEN Raise(auth, g, <<"users">>)
        ELSE IF RowIds(g, grade_id) = {} THEN Raise("ValidationError", g, <<"users", "avaliacoes">>)
        ELSE IF ~IsNone(valor) /\ ~IsFloat(valor) THEN Raise("TypeError", g, <<"users", "avaliacoes">>)
        ELSE IF ~IsNone(valor) /\ ValorOutOfRange(valor) THEN Raise("ValidationError", g, <<"users", "avaliacoes">>)
        ELSE LET old == g[grade_id.v]
                 avaliacao == [old EXCEPT
                                 !.valor = IF IsNone(valor) THEN @ ELSE valor.v,
                                 !.modulo = IF IsNone(modulo) THEN @ ELSE modulo.v,
                                 !.descricao = IF IsNone(descricao) THEN @ ELSE descricao.v,
                                 !.updated_by = teacher_id]
             IN  Return(DictV([success |-> BoolV(TRUE),
                               message |-> StrV("Grade updated successfully"),
                               evaluation |-> to_dict(avaliacao)]),
                        [g EXCEPT ![grade_id.v] = avaliacao],
                        <<"users", "avaliacoes">>)

\* a delete_grade that deletes the row its first argument names
delete_grade_removes(g, args) ==
    Return(NoneV,
           [i \in DOMAIN g \ (IF Len(args) = 0 THEN {} ELSE {args[1]}) |-> g[i]],
           <<"avaliacoes">>)

\* delete_grade(*args, **kwargs): raises whatever it is given
delete_grade(g, args) == Raise("FeatureNotAvailableError", g, <<>>)

----------------------------------------------------------------------------
(* Queries and statistics *)

\* the elements of a finite set of integers as a sequence, largest first
RECURSIVE SeqDesc(_)
SeqDesc(S) == IF S = {} THEN <<>> ELSE <<SetMax(S)>> \o SeqDesc(S \ {SetMax(S)})

\* ... and smallest first
RECURSIVE SeqAsc(_)
SeqAsc(S) == IF S = {} THEN <<>> ELSE <<SetMin(S)>> \o SeqAsc(S \ {SetMin(S)})

RECURSIVE SeqSum(_)
SeqSum(s) == IF Len(s) = 0 THEN 0 ELSE s[1] + SeqSum(Tail(s))

SeqMin(s) == SetMin({s[i] : i \in 1..Len(s)})
SeqMax(s) == SetMax({s[i] : i \in 1..Len(s)})

\* round(num / den, 2) for num in hundredths: the nearest hundredth, ties to
\* even (num >= 0, den > 0)
Round2(num, den) ==
    LET q == num \div den
        r == num % den
    IN  IF 2 * r > den THEN q + 1
        ELSE IF 2 * r < den THEN q
        ELSE IF q % 2 = 0 THEN q ELSE q + 1

\* the values of a sequence in ascending order
RECURSIVE SortAsc(_)
SortAsc(s) ==
    IF Len(s) = 0 THEN <<>>
    ELSE LET i == CHOOSE j \in 1..Len(s) : \A k \in 1..Len(s) : s[j] <= s[k]
         IN  <<s[i]>> \o SortAsc(SubSeq(s, 1, i - 1) \o SubSeq(s, i + 1, Len(s)))

\* round(statistics.mean(values), 2) and round(statistics.median(values), 2)
Mean2(values) == Round2(SeqSum(values), Len(values))
Median2(values) ==
    LET o == SortAsc(values)
        n == Len(o)
    IN  IF n % 2 = 1 THEN Round2(o[(n + 1) \div 2], 1)
        ELSE Round2(o[n \div 2] + o[n \div 2 + 1], 2)

\* column == value, for an integer column and a string column
IntColEq(col, value) == IsInt(value) /\ value.v = col
StrColEq(col, value) == value.t = "str" /\ value.v = col

\* the rows selected by .filter(Avaliacao.user_id == student_id) and the
\* optional filters, each applied only when its value is truthy
SelectGrades(g, student_id, disciplina_id, modulo, turma_id) ==
    {i \in DOMAIN g :
        /\ IntColEq(g[i].user_id, student_id)
        /\ Truthy(disciplina_id) => IntColEq(g[i].disciplina_id, disciplina_id)
        /\ Truthy(modulo) => StrColEq(g[i].modulo, modulo)
        /\ Truthy(turma_id) => IntColEq(g[i].turma_id, turma_id)}

\* the rows of a sequence of ids, as dictionaries
RowDicts(g, ids) == [i \in 1..Len(ids) |-> to_dict(g[ids[i]])]
Valores(g, ids) == [i \in 1..Len(ids) |-> g[ids[i]].valor]

\* s[:n]
Take(s, n) == SubSeq(s, 1, IF Len(s) < n THEN Len(s) ELSE n)

----------------------------------------------------------------------------
(* tools/grades_read.py *)

StudentDict(user) == DictV([id |-> IntV(user.id), name |-> StrV(user.name)])

\* a query that looks the student up before it checks the requester
get_grades_by_student_lookup_first(g, requester_id, student_id, disciplina_id, modulo, turma_id) ==
    LET auth == enforce_student_data_access(requester_id, student_id)
    IN  IF RowIds(UserTable, student_id) = {} THEN Raise("ValidationError", g, <<"users">>)
        ELSE IF auth # NoExc THEN Raise(auth, g, <<"users", "users">>)
        ELSE LET student == UserTable[student_id.v]
                 ids == SeqDesc(SelectGrades(g, student_id, disciplina_id, modulo, turma_id))
             IN  Return(DictV([student |-> StudentDict(student),
                               filters_applied |-> DictV([disciplina_id |-> disciplina_id,
                                                          modulo |-> modulo,
                                                          turma_id |-> turma_id]),
                               total_grades |-> IntV(Len(ids)),
                               grades |-> ListV(RowDicts(g, ids))]),
                        g, <<"users", "users", "avaliacoes">>)

get_grades_by_student(g, requester_id, student_id, disciplina_id, modulo, turma_id) ==
    LET auth == enforce_student_data_access(requester_id, student_id)
    IN  IF auth # NoExc THEN Raise(auth, g, <<"users">>)
        ELSE IF RowIds(UserTable, student_id) = {} THEN Raise("ValidationError", g, <<"users", "users">>)
        ELSE LET student == UserTable[student_id.v]
                 \* order_by(Avaliacao.date.desc())
                 ids == SeqDesc(SelectGrades(g, student_id, disciplina_id, modulo, turma_id))
             IN  Return(DictV([student |-> StudentDict(student),
                               filters_applied |-> DictV([disciplina_id |-> disciplina_id,
                                                          modulo |-> modulo,
                                                          turma_id |-> turma_id]),
                               total_grades |-> IntV(Len(ids)),
                               grades |-> ListV(RowDicts(g, ids))]),
                        g, <<"users", "users", "avaliacoes">>)

\* the per-subject averages of a student: subject name -> {id, average, count}
AveragesByDisciplina(g, student_id) ==
    LET with == {d \in DOMAIN DisciplinaTable :
                    \E i \in DOMAIN g : g[i].user_id = student_id /\ g[i].disciplina_id = d}
        names == {DisciplinaTable[d].name : d \in with}
        idOf(n) == CHOOSE d \in with : DisciplinaTable[d].name = n
        rows(d) == SeqAsc({i \in DOMAIN g : g[i].user_id = student_id /\ g[i].disciplina_id = d})
    IN  [n \in names |->
            DictV([id |-> IntV(idOf(n)),
                   average |-> FloatV(Mean2(Valores(g, rows(idOf(n))))),
                   total_evaluations |-> IntV(Len(rows(idOf(n))))])]

get_grade_summary(g, requester_id, student_id, disciplina_id) ==
    LET auth == enforce_student_data_access(requester_id, student_id)
    IN  IF auth # NoExc THEN Raise(auth, g, <<"users">>)
        ELSE IF RowIds(UserTable, student_id) = {} THEN Raise("ValidationError", g, <<"users", "users">>)
        ELSE LET student == UserTable[student_id.v]
                 ids == SeqDesc(SelectGrades(g, student_id, disciplina_id, NoneV, NoneV))
                 valores == Valores(g, ids)
             IN  IF Len(ids) = 0
                 THEN Return(DictV([student |-> StudentDict(student),
                                    disciplina_id |-> disciplina_id,
                                    total_evaluations |-> IntV(0),
                                    average |-> NoneV,
                                    min_grade |-> NoneV,
                                    max_grade |-> NoneV,
                                    recent_evaluations |-> ListV(<<>>)]),
                             g, <<"users", "users", "avaliacoes">>)
                 ELSE Return(DictV([student |-> StudentDict(student),
                                    disciplina_id |-> disciplina_id,
                                    total_evaluations |-> IntV(Len(ids)),
                                    average |-> FloatV(Mean2(valores)),
                                    min_grade |-> FloatV(SeqMin(valores)),
                                    max_grade |-> FloatV(SeqMax(valores)),
                                    averages_by_disciplina |->
                                        IF ~Truthy(disciplina_id)
                                        THEN DictV(AveragesByDisciplina(g, student_id.v))
                                        ELSE NoneV,
                                    recent_evaluations |-> ListV(RowDicts(g, Take(ids, 5)))]),
                             g, <<"users", "users", "avaliacoes">>)

----------------------------------------------------------------------------
(* tools/reporting.py *)

compute_statistics(values) ==
    IF Len(values) = 0
    THEN DictV([mean |-> NoneV, median |-> NoneV, min |-> NoneV, max |-> NoneV,
                total_grades |-> IntV(0)])
    ELSE DictV([mean |-> FloatV(Mean2(values)),
                median |-> FloatV(Median2(values)),
                min |-> FloatV(SeqMin(values)),
                max |-> FloatV(SeqMax(values)),
                total_grades |-> IntV(Len(values))])

\* the report of one student of the class, with the ids of the rows it covers
StudentReportIds(g, student, turma_id, disciplina_id, modulo) ==
    SeqAsc(SelectGrades(g, IntV(student), disciplina_id, modulo, turma_id))

student_report(g, student, turma_id, disciplina_id, modulo) ==
    LET ids == StudentReportIds(g, student, turma_id, disciplina_id, modulo)
        valores == Valores(g, ids)
    IN  DictV([student_id |-> IntV(student),
               student_name |-> StrV(UserTable[student].name),
               total_evaluations |-> IntV(Len(ids)),
               average |-> IF Len(ids) > 0 THEN FloatV(Mean2(valores)) ELSE NoneV,
               min_grade |-> IF Len(ids) > 0 THEN FloatV(SeqMin(valores)) ELSE NoneV,
               max_grade |-> IF Len(ids) > 0 THEN FloatV(SeqMax(valores)) ELSE NoneV,
               grades |-> ListV(RowDicts(g, ids))])

RECURSIVE ConcatAll(_)
ConcatAll(ss) == IF Len(ss) = 0 THEN <<>> ELSE ss[1] \o ConcatAll(Tail(ss))

\* a report that lists only the students of the class who have a grade
get_class_report_graded_only(g, requester_id, turma_id, disciplina_id, modulo) ==
    LET auth == enforce_teacher_only(requester_id)
    IN  IF auth # NoExc THEN Raise(auth, g, <<"users">>)
        ELSE IF RowIds(TurmaTable, turma_id) = {} THEN Raise("ValidationError", g, <<"users", "turmas">>)
        ELSE LET turma == TurmaTable[turma_id.v]
                 students_in_class ==
                     SeqAsc({u \in UserIds :
                                /\ [user_id |-> u, turma_id |-> turma_id.v] \in AlunoTurma
                                /\ UserTable[u].role = "student"
                                /\ \E i \in DOMAIN g : g[i].user_id = u})
                 reports == [i \in 1..Len(students_in_class) |->
                                student_report(g, students_in_class[i], turma_id,
                                               disciplina_id, modulo)]
                 all_grades == ConcatAll([i \in 1..Len(students_in_class) |->
                                 Valores(g, StudentReportIds(g, students_in_class[i], turma_id,
                                                             disciplina_id, modulo))])
             IN  Return(DictV([turma |-> DictV([id |-> IntV(turma.id), name |-> StrV(turma.name)]),
                               filters_applied |-> DictV([disciplina_id |-> disciplina_id,
                                                          modulo |-> modulo]),
                               total_students |-> IntV(Len(students_in_class)),
                               class_statistics |-> IF Len(all_grades) > 0
                                                    THEN compute_statistics(all_grades)
                                                    ELSE NoneV,
                               students |-> ListV(reports)]),
                        g, <<"users", "turmas", "alunos_turmas", "avaliacoes">>)

get_class_report(g, requester_id, turma_id, disciplina_id, modulo) ==
    LET auth == enforce_teacher_only(requester_id)
    IN  IF auth # NoExc THEN Raise(auth, g, <<"users">>)
        ELSE IF RowIds(TurmaTable, turma_id) = {} THEN Raise("ValidationError", g, <<"users", "turmas">>)
        ELSE LET turma == TurmaTable[turma_id.v]
                 students_in_class ==
                     SeqAsc({u \in UserIds :
                                /\ [user_id |-> u, turma_id |-> turma_id.v] \in AlunoTurma
                                /\ UserTable[u].role = "student"})
                 reports == [i \in 1..Len(students_in_class) |->
                                student_report(g, students_in_class[i], turma_id,
                                               disciplina_id, modulo)]
                 all_grades == ConcatAll([i \in 1..Len(students_in_class) |->
                                 Valores(g, StudentReportIds(g, students_in_class[i], turma_id,
                                                             disciplina_id, modulo))])
             IN  Return(DictV([turma |-> DictV([id |-> IntV(turma.id), name |-> StrV(turma.name)]),
                               filters_applied |-> DictV([disciplina_id |-> disciplina_id,
                                                          modulo |-> modulo]),
                               total_students |-> IntV(Len(students_in_class)),
                               class_statistics |-> IF Len(all_grades) > 0
                                                    THEN compute_statistics(all_grades)
                                                    ELSE NoneV,
                               students |-> ListV(reports)]),
                        g, <<"users", "turmas", "alunos_turmas", "avaliacoes">>)

----------------------------------------------------------------------------
(* tools/identity.py *)

\* get_user: the user as a dictionary, or InvalidUserError
get_user(user_id) ==
    LET u == AuthorizationService_get_user(user_id)
    IN  IF u.exc # NoExc THEN [exc |-> u.exc]
        ELSE [exc |-> NoExc, id |-> u.user.id, name |-> u.user.name, role |-> u.user.role]

\* a name search that does not ask who searches
find_student_by_name_unchecked(requester_id, name) ==
    LET hits == {u \in UserIds : UserTable[u].role = "student" /\ ILike(UserTable[u].name, name)}
    IN  IF hits = {} THEN [exc |-> NoExc, found |-> FALSE]
        ELSE [exc |-> NoExc, found |-> TRUE, id |-> SetMin(hits)]

\* find_student_by_name: .first() of the students whose name matches, taken
\* in primary-key order; found = FALSE is the return value None
find_student_by_name(requester_id, name) ==
    LET auth == enforce_teacher_only(requester_id)
        hits == {u \in UserIds : UserTable[u].role = "student" /\ ILike(UserTable[u].name, name)}
    IN  IF auth # NoExc THEN [exc |-> auth]
        ELSE IF hits = {} THEN [exc |-> NoExc, found |-> FALSE]
        ELSE [exc |-> NoExc, found |-> TRUE, id |-> SetMin(hits)]

----------------------------------------------------------------------------
(* Regular expressions, as far as the guardrail patterns use them.  A      *)
(* pattern is a tree; Ends(re, s, i) is the set of positions at which a    *)
(* match of re that starts at position i of s can end, so that re.search   *)
(* succeeds exactly when some start position has a non-empty set.          *)

Lit(w) == [k |-> "lit", w |-> w]                 \* literal text
Cat(rs) == [k |-> "cat", rs |-> rs]              \* r1 r2 ... rn
Alt(rs) == [k |-> "alt", rs |-> rs]              \* (r1|r2|...|rn)
Opt(r) == [k |-> "opt", r |-> r]                 \* r?
Many1(cls) == [k |-> "many1", cls |-> cls]       \* \s+  \w+  \d+
Many0(cls) == [k |-> "many0", cls |-> cls]       \* \s*
OneOf(cls) == [k |-> "oneof", cls |-> cls]       \* [:=]
NotAhead(r) == [k |-> "notahead", r |-> r]       \* (?!r)
WordBoundary == [k |-> "wb"]                     \* \b

SpaceChars == " "
DigitChars == "0123456789"
WordChars == LowerChars \o UpperChars \o DigitChars \o "_"

CharAt(s, i) == SubSeq(s, i, i)
InClass(c, cls) == \E j \in 1..Len(cls) : CharAt(cls, j) = c
IsWordAt(s, i) == i >= 1 /\ i <= Len(s) /\ InClass(CharAt(s, i), WordChars)

\* the positions j >= i such that s[i..j-1] consists of characters of cls
RunEnds(cls, s, i) ==
    {j \in i..(Len(s) + 1) : \A p \in i..(j - 1) : InClass(CharAt(s, p), cls)}

RECURSIVE Ends(_, _, _)
Ends(re, s, i) ==
    CASE re.k = "lit" ->
            IF i + Len(re.w) - 1 <= Len(s) /\ SubSeq(s, i, i + Len(re.w) - 1) = re.w
            THEN {i + Len(re.w)} ELSE {}
      [] re.k = "cat" ->
            IF Len(re.rs) = 0 THEN {i}
            ELSE UNION {Ends(Cat(Tail(re.rs)), s, j) : j \in Ends(re.rs[1], s, i)}
      [] re.k = "alt" -> UNION {Ends(re.rs[n], s, i) : n \in 1..Len(re.rs)}
      [] re.k = "opt" -> {i} \cup Ends(re.r, s, i)
      [] re.k = "many1" -> RunEnds(re.cls, s, i) \ {i}
      [] re.k = "many0" -> RunEnds(re.cls, s, i)
      [] re.k = "oneof" ->
            IF i <= Len(s) /\ InClass(CharAt(s, i), re.cls) THEN {i + 1} ELSE {}
      [] re.k = "notahead" -> IF Ends(re.r, s, i) = {} THEN {i} ELSE {}
      [] re.k = "wb" -> IF IsWordAt(s, i - 1) # IsWordAt(s, i) THEN {i} ELSE {}

\* re.search(pattern, text)
Search(re, s) == \E i \in 1..(Len(s) + 1) : Ends(re, s, i) # {}

\* The text of the group g in the leftmost match of the pattern  pre g post,
\* as a one-element set, or {} when the pattern has no match.  The patterns
\* it is used for have greedy quantifiers only, so the group extends as far
\* as a match allows.
Capture(pre, g, post, s) ==
    LET starts == {i \in 1..(Len(s) + 1) : Ends(Cat(<<pre, g, post>>), s, i) # {}}
        i == SetMin(starts)
        from == SetMax({j \in Ends(pre, s, i) : Ends(Cat(<<g, post>>), s, j) # {}})
        to == SetMax({e \in Ends(g, s, from) : Ends(post, s, e) # {}})
    IN  IF starts = {} THEN {} ELSE {SubSeq(s, from, to - 1)}

\* str(n) for n >= 0
RECURSIVE IntToStr(_)
IntToStr(n) == IF n < 10 THEN CharAt(DigitChars, n + 1)
               ELSE IntToStr(n \div 10) \o CharAt(DigitChars, (n % 10) + 1)

----------------------------------------------------------------------------
(* guardrails/guardrails.py: GuardrailPre *)

WS == Many1(SpaceChars)
Word == Many1(WordChars)
DoDaDe == Alt(<<Lit("do"), Lit("da"), Lit("de")>>)
NotaAval == Alt(<<Lit("nota"), Lit("avaliação")>>)
GradeEval == Alt(<<Lit("grade"), Lit("evaluation")>>)
NotMinhas == NotAhead(Cat(<<Lit("minha"), Opt(Lit("s"))>>))     \* (?!minhas?)
NotasOpt == Cat(<<Lit("nota"), Opt(Lit("s"))>>)                 \* notas?

\* OTHER_STUDENT_PATTERNS, with {user_id} replaced by str(user_id)
OTHER_STUDENT_PATTERNS(user_id) == <<
    Cat(<<NotasOpt, WS, DoDaDe, WS,
          NotAhead(Alt(<<Cat(<<Lit("minha"), Opt(Lit("s"))>>),
                         Cat(<<Lit("meu"), Opt(Lit("s"))>>),
                         Lit("minha")>>)), Word>>),
    Cat(<<Lit("grade"), Opt(Lit("s")), WS, Alt(<<Lit("of"), Lit("for")>>), WS,
          NotAhead(Alt(<<Lit("my"), Lit("mine")>>)), Word>>),
    Cat(<<Lit("ver"), WS, NotasOpt, WS, DoDaDe, WS, NotMinhas, Word>>),
    Cat(<<Lit("mostra"), WS, Opt(Cat(<<Lit("as"), WS>>)), NotasOpt, WS, DoDaDe, WS,
          NotMinhas, Word>>),
    Cat(<<Lit("consulta"), Opt(Lit("r")), WS, NotasOpt, WS, DoDaDe, WS, NotMinhas, Word>>),
    Cat(<<Lit("média"), Opt(Lit("s")), WS, DoDaDe, WS, NotMinhas, Word>>),
    Cat(<<Lit("relatório"), WS, DoDaDe, WS, Lit("aluno")>>),
    Cat(<<Lit("student_id"), Many0(SpaceChars), OneOf(":="), Many0(SpaceChars),
          NotAhead(Lit(IntToStr(user_id))), Many1(DigitChars)>>) >>

DELETE_PATTERNS == <<
    Cat(<<Lit("apagar"), WS, NotaAval>>),
    Cat(<<Lit("deleta"), Opt(Lit("r")), WS, NotaAval>>),
    Cat(<<Lit("remover"), WS, NotaAval>>),
    Cat(<<Lit("excluir"), WS, NotaAval>>),
    Cat(<<Lit("delete"), WS, GradeEval>>),
    Cat(<<Lit("remove"), WS, GradeEval>>) >>

WRITE_PATTERNS == <<
    Cat(<<Lit("adiciona"), Opt(Lit("r")), WS, NotaAval>>),
    Cat(<<Lit("inserir"), WS, NotaAval>>),
    Cat(<<Lit("criar"), WS, NotaAval>>),
    Cat(<<Lit("atualizar"), WS, NotaAval>>),
    Cat(<<Lit("modificar"), WS, NotaAval>>),
    Cat(<<Lit("alterar"), WS, NotaAval>>),
    Cat(<<Lit("mudar"), WS, NotaAval>>),
    Cat(<<Lit("add"), WS, GradeEval>>),
    Cat(<<Lit("update"), WS, GradeEval>>),
    Cat(<<Lit("modify"), WS, GradeEval>>),
    Cat(<<Lit("change"), WS, GradeEval>>) >>

\* GuardrailPre._matches_any_pattern (the text is already lower case, and
\* re.IGNORECASE makes the match insensitive to the case of the pattern)
matches_any_pattern(text, patterns) ==
    \E n \in 1..Len(patterns) : Search(patterns[n], text)

ReasonDelete ==
    "A eliminação de notas não é permitida no sistema. "
    \o "Se precisar corrigir uma nota, utilize a funcionalidade de atualização."
ReasonOtherStudent ==
    "Não é possível aceder às notas de outros alunos. "
    \o "Apenas pode consultar as suas próprias notas."
ReasonWrite == "Apenas professores podem adicionar ou modificar notas."

\* a check that applies the rules for students before the deletion rule
check_pre_guardrail_students_first(user_id, role, message) ==
    LET message_lower == Lower(message)
    IN  IF role = "student"
           /\ matches_any_pattern(message_lower, OTHER_STUDENT_PATTERNS(user_id))
        THEN [allowed |-> FALSE, reason |-> ReasonOtherStudent]
        ELSE IF role = "student" /\ matches_any_pattern(message_lower, WRITE_PATTERNS)
        THEN [allowed |-> FALSE, reason |-> ReasonWrite]
        ELSE IF matches_any_pattern(message_lower, DELETE_PATTERNS)
        THEN [allowed |-> FALSE, reason |-> ReasonDelete]
        ELSE [allowed |-> TRUE, reason |-> "None"]

\* GuardrailPre.check, folded with check_pre_guardrail: (is_allowed, reason)
check_pre_guardrail(user_id, role, message) ==
    LET message_lower == Lower(message)
    IN  IF matches_any_pattern(message_lower, DELETE_PATTERNS)
        THEN [allowed |-> FALSE, reason |-> ReasonDelete]
        ELSE IF role = "student"
                /\ matches_any_pattern(message_lower, OTHER_STUDENT_PATTERNS(user_id))
        THEN [allowed |-> FALSE, reason |-> ReasonOtherStudent]
        ELSE IF role = "student" /\ matches_any_pattern(message_lower, WRITE_PATTERNS)
        THEN [allowed |-> FALSE, reason |-> ReasonWrite]
        ELSE [allowed |-> TRUE, reason |-> "None"]

----------------------------------------------------------------------------
(* guardrails/guardrails.py: GuardrailPost *)

\* a test of the owner that looks at the key user_id alone
ForeignRecord_user_id_only(data, user_id) ==
    "user_id" \in DOMAIN data.v /\ data.v["user_id"] # IntV(user_id)

\* a dictionary that carries an owner key with a value other than user_id
ForeignRecord(data, user_id) ==
    \/ "user_id" \in DOMAIN data.v /\ data.v["user_id"] # IntV(user_id)
    \/ "student_id" \in DOMAIN data.v /\ data.v["student_id"] # IntV(user_id)

\* a filter that keeps the fields and the items that were not None before
\* they were filtered
RECURSIVE filter_student_data_tests_input(_, _)
filter_student_data_tests_input(data, user_id) ==
    IF data.t = "dict"
    THEN IF ForeignRecord(data, user_id) THEN NoneV
         ELSE LET kept == {key \in DOMAIN data.v : ~IsNone(data.v[key])}
              IN  DictV([key \in kept |->
                            filter_student_data_tests_input(data.v[key], user_id)])
    ELSE IF data.t = "list"
    THEN LET idx == SeqAsc({i \in 1..Len(data.v) : ~IsNone(data.v[i])})
         IN  ListV([n \in 1..Len(idx) |->
                       filter_student_data_tests_input(data.v[idx[n]], user_id)])
    ELSE data

\* GuardrailPost._filter_student_data; the return value None is NoneV
RECURSIVE filter_student_data(_, _)
filter_student_data(data, user_id) ==
    IF data.t = "dict"
    THEN IF ForeignRecord(data, user_id) THEN NoneV
         ELSE LET kept == {key \in DOMAIN data.v :
                              ~IsNone(filter_student_data(data.v[key], user_id))}
              IN  DictV([key \in kept |-> filter_student_data(data.v[key], user_id)])
    ELSE IF data.t = "list"
    THEN LET keep == [i \in 1..Len(data.v) |-> filter_student_data(data.v[i], user_id)]
             idx == SeqAsc({i \in 1..Len(keep) : ~IsNone(keep[i])})
         IN  ListV([n \in 1..Len(idx) |-> keep[idx[n]]])
    ELSE data

\* GuardrailPost.sanitize, folded with sanitize_response
sanitize_response(user_id, role, response) ==
    IF role = "teacher" THEN response ELSE filter_student_data(response, user_id)

----------------------------------------------------------------------------
(* agent/state.py *)

ADD_GRADE == "add_grade"
UPDATE_GRADE == "update_grade"
QUERY_GRADES == "query_grades"
SUMMARY == "summary"
CLASS_REPORT == "class_report"
FALLBACK == "fallback"
BLOCKED == "blocked"

\* the values of the enumeration Intent
Intent == {ADD_GRADE, UPDATE_GRADE, QUERY_GRADES, SUMMARY, CLASS_REPORT, FALLBACK, BLOCKED}

REQUIRED_FIELDS(intent) ==
    CASE intent = ADD_GRADE ->
            <<"student_id", "disciplina_id", "turma_id", "modulo", "descricao", "valor">>
      [] intent = UPDATE_GRADE -> <<"grade_id">>
      [] intent = QUERY_GRADES -> <<>>
      [] intent = SUMMARY -> <<>>
      [] intent = CLASS_REPORT -> <<"turma_id">>
      [] intent = FALLBACK -> <<>>
      [] intent = BLOCKED -> <<>>
      [] OTHER -> <<>>

----------------------------------------------------------------------------
(* agent/parser.py: the language model returns a JSON object; parse()      *)
(* converts its intent and cleans its entities.                            *)

IsDigits(s) == Len(s) > 0 /\ \A i \in 1..Len(s) : InClass(CharAt(s, i), DigitChars)
DigitVal(c) == (CHOOSE j \in 1..Len(DigitChars) : CharAt(DigitChars, j) = c) - 1

RECURSIVE DigitsToInt(_)
DigitsToInt(s) == IF Len(s) = 0 THEN 0
                  ELSE 10 * DigitsToInt(SubSeq(s, 1, Len(s) - 1)) + DigitVal(CharAt(s, Len(s)))

ValueError == [t |-> "ValueError"]

\* int(value)
ToInt(value) ==
    CASE value.t = "int" -> value
      [] value.t = "float" -> IntV(value.v \div 100)
      [] value.t = "str" /\ IsDigits(value.v) -> IntV(DigitsToInt(value.v))
      [] OTHER -> ValueError

\* the text d+ or d+.d or d+.dd as a number of hundredths, -1 for other texts
DecimalText(text) ==
    LET dots == {i \in 1..Len(text) : CharAt(text, i) = "."}
    IN  IF IsDigits(text) THEN 100 * DigitsToInt(text)
        ELSE IF Cardinality(dots) = 1
        THEN LET d == CHOOSE i \in dots : TRUE
                 whole == SubSeq(text, 1, d - 1)
                 frac == SubSeq(text, d + 1, Len(text))
             IN  IF IsDigits(whole) /\ IsDigits(frac) /\ Len(frac) <= 2
                 THEN 100 * DigitsToInt(whole)
                      + (IF Len(frac) = 1 THEN 10 ELSE 1) * DigitsToInt(frac)
                 ELSE 0 - 1
        ELSE 0 - 1

\* float(value), for numbers and for the decimal texts above
ToFloat(value) ==
    CASE value.t = "float" -> value
      [] value.t = "int" -> FloatV(100 * value.v)
      [] value.t = "str" /\ DecimalText(value.v) >= 0 -> FloatV(DecimalText(value.v))
      [] OTHER -> ValueError

int_fields == {"student_id", "grade_id", "disciplina_id", "turma_id"}
float_fields == {"valor"}

\* IntentEntityParser._clean_entities
clean_entities(entities) ==
    LET nonempty == {key \in DOMAIN entities :
                        ~IsNone(entities[key]) /\ entities[key] # StrV("")}
        kept == {key \in nonempty : key \in float_fields => ToFloat(entities[key]) # ValueError}
    IN  [key \in kept |->
            IF key \in int_fields
            THEN IF ToInt(entities[key]) # ValueError THEN ToInt(entities[key])
                 ELSE entities[key]
            ELSE IF key \in float_fields THEN ToFloat(entities[key])
            ELSE entities[key]]

UpperChar(c) ==
    IF \E i \in 1..Len(LowerChars) : CharAt(LowerChars, i) = c
    THEN LET i == CHOOSE j \in 1..Len(LowerChars) : CharAt(LowerChars, j) = c
         IN  CharAt(UpperChars, i)
    ELSE c

RECURSIVE Upper(_)
Upper(s) == IF Len(s) = 0 THEN ""
            ELSE UpperChar(CharAt(s, 1)) \o Upper(SubSeq(s, 2, Len(s)))

\* s.replace(",", ".")
RECURSIVE CommaToDot(_)
CommaToDot(s) == IF Len(s) = 0 THEN ""
                 ELSE (IF CharAt(s, 1) = "," THEN "." ELSE CharAt(s, 1))
                      \o CommaToDot(SubSeq(s, 2, Len(s)))

Digit == OneOf(DigitChars)
\* (\d{1,2}(?:[.,]\d+)?)  and  \s*(?:valores?|pontos?)?\b
ValorGroup == Cat(<<Digit, Opt(Digit), Opt(Cat(<<OneOf(".,"), Many1(DigitChars)>>))>>)
ValorTail == Cat(<<Many0(SpaceChars),
                   Opt(Alt(<<Cat(<<Lit("valor"), Opt(Lit("es"))>>),
                             Cat(<<Lit("ponto"), Opt(Lit("s"))>>)>>)),
                   WordBoundary>>)
\* (módulo|capítulo|module)\s*  and  (\d+|[IVX]+)
ModuloHead == Cat(<<Alt(<<Lit("módulo"), Lit("capítulo"), Lit("module")>>), Many0(SpaceChars)>>)
ModuloGroup == Alt(<<Many1(DigitChars), Many1("IVX")>>)
\* turma\s+  and  (\d+[A-Za-z]?)
TurmaHead == Cat(<<Lit("turma"), Many1(SpaceChars)>>)
TurmaGroup == Cat(<<Many1(DigitChars), Opt(OneOf("abcdefghijklmnopqrstuvwxyzABCDEFGHIJKLMNOPQRSTUVWXYZ"))>>)

\* any(word in message_lower for word in words)
AnyWord(words, text) == \E w \in words : IsSubstr(w, text)

\* _rule_based_parse, the intent: the first keyword list with a word in the text
rule_based_intent(message_lower, role) ==
    IF AnyWord({"adicionar", "inserir", "nova nota", "add"}, message_lower)
    THEN ADD_GRADE
    ELSE IF AnyWord({"atualizar", "modificar", "alterar", "update", "mudar"}, message_lower)
    THEN UPDATE_GRADE
    ELSE IF AnyWord({"média", "resumo", "summary", "médias"}, message_lower)
    THEN SUMMARY
    ELSE IF AnyWord({"relatório", "report", "turma"}, message_lower) /\ role = "teacher"
    THEN CLASS_REPORT
    ELSE IF AnyWord({"nota", "notas", "grades", "avaliação", "avaliações"}, message_lower)
    THEN QUERY_GRADES
    ELSE FALLBACK

\* _rule_based_parse, the entity a pattern extracts: matched is the text of
\* the group ({} when no match), value the entity made of it (ValueError when
\* the conversion raises, which leaves the entity out)
with_match(entities, key, value) ==
    IF value = {} \/ value = {ValueError} THEN entities
    ELSE Put(entities, key, CHOOSE x \in value : TRUE)

\* IntentEntityParser._rule_based_parse
rule_based_parse(message, user_id, role) ==
    [intent |-> rule_based_intent(Lower(message), role),
     entities |->
        (IF role = "student"
            /\ rule_based_intent(Lower(message), role) \in {QUERY_GRADES, SUMMARY}
         THEN [student_id |-> IntV(user_id)] ELSE EmptyDict)
        @@
        with_match(
            with_match(
                with_match(EmptyDict, "valor",
                    {ToFloat(StrV(CommaToDot(m))) :
                        m \in Capture(WordBoundary, ValorGroup, ValorTail, message)}),
                "modulo",
                {StrV("Módulo " \o m) :
                    m \in Capture(ModuloHead, ModuloGroup, Cat(<<>>), Lower(message))}),
            "turma_name",
            {StrV(Upper(m)) :
                m \in Capture(TurmaHead, TurmaGroup, Cat(<<>>), Lower(message))})]

\* Intent(intent_str), with the fallback of parse() for a ValueError
ToIntent(intent_str) == IF intent_str \in Intent THEN intent_str ELSE FALLBACK

\* IntentEntityParser.parse, for the JSON object llm = [intent, entities]
\* returned by the chain
parse_llm(llm) == [intent |-> ToIntent(llm.intent), entities |-> clean_entities(llm.entities)]

----------------------------------------------------------------------------
(* agent/workflow.py and agent/nodes.py: the state of a run.  A key of the *)
(* AgentState dictionary that was never assigned holds Unset (strings) or  *)
(* NoneV (tool_result), the values state.get returns for it.  pc is the    *)
(* node of the graph to run next; calls and reads record, for the run, the *)
(* functions invoked and the tables queried.                               *)

Unset == "<unset>"

Runs == {1}

IdleState ==
    [pc |-> "idle", user_id |-> 0, message |-> "", role |-> Unset, user_name |-> Unset,
     intent |-> Unset, entities |-> EmptyDict, missing_fields |-> <<>>,
     ask_missing_fields |-> FALSE, tool_result |-> NoneV, error |-> Unset,
     response |-> Unset, blocked |-> FALSE, blocked_reason |-> Unset,
     calls |-> {}, reads |-> <<>>, scope |-> <<>>]

\* run_agent: initial_state
initial_state(user_id, message) ==
    [IdleState EXCEPT !.pc = "load_user_context", !.user_id = user_id, !.message = message]

\* state.get("intent", Intent.FALLBACK)
IntentOf(state) == IF state.intent = Unset THEN FALLBACK ELSE state.intent

\* run_agent: the dictionary returned for a final state
run_output(state) ==
    [response |-> IF state.response = Unset THEN "" ELSE state.response,
     blocked |-> state.blocked,
     intent |-> IF state.intent = Unset THEN "fallback" ELSE state.intent,
     tool_result |-> state.tool_result,
     error |-> state.error]

\* the texts the nodes put in error and blocked_reason; ErrValidation and
\* ErrGeneric are the fixed prefixes of texts that end with the message of
\* the exception
ErrUserNotFound == "Utilizador não encontrado no sistema."
ErrStudentAccess == "Não é possível aceder às notas de outros alunos."
ErrTeacherOnly == "Esta operação só pode ser realizada por um professor."
ErrValidation == "Erro de validação"
ErrDelete == "A eliminação de notas não é permitida no sistema."
ErrGeneric == "Erro ao executar operação"

\* Node 1 that records the error of an unknown user without blocking the run
load_user_context_node_no_block(state) ==
    LET user_info == get_user(state.user_id)
        called == [state EXCEPT !.calls = @ \cup {"get_user"}, !.reads = Append(@, "users")]
    IN  IF user_info.exc = NoExc
        THEN [called EXCEPT !.role = user_info.role, !.user_name = user_info.name]
        ELSE [called EXCEPT !.error = "User not found"]

\* Node 1
load_user_context_node(state) ==
    LET user_info == get_user(state.user_id)
        called == [state EXCEPT !.calls = @ \cup {"get_user"}, !.reads = Append(@, "users")]
    IN  IF user_info.exc = NoExc
        THEN [called EXCEPT !.role = user_info.role, !.user_name = user_info.name]
        ELSE [called EXCEPT !.error = "User not found", !.blocked = TRUE,
                            !.blocked_reason = ErrUserNotFound]

\* a Node 2 that blocks and leaves the intent as it is
guardrail_pre_node_keeps_intent(state) ==
    IF state.blocked THEN state
    ELSE LET chk == check_pre_guardrail(state.user_id, state.role, state.message)
             called == [state EXCEPT !.calls = @ \cup {"check_pre_guardrail"}]
         IN  IF ~chk.allowed
             THEN [called EXCEPT !.blocked = TRUE, !.blocked_reason = chk.reason]
             ELSE called

\* Node 2
guardrail_pre_node(state) ==
    IF state.blocked THEN state
    ELSE LET chk == check_pre_guardrail(state.user_id, state.role, state.message)
             called == [state EXCEPT !.calls = @ \cup {"check_pre_guardrail"}]
         IN  IF ~chk.allowed
             THEN [called EXCEPT !.blocked = TRUE, !.blocked_reason = chk.reason,
                                 !.intent = BLOCKED]
             ELSE called

\* Node 3 without its early return for a blocked run
parse_intent_and_entities_node_unguarded(state, parsed) ==
    [state EXCEPT
        !.calls = @ \cup {"parser.parse"},
        !.intent = parsed.intent,
        !.entities = IF state.role = "student" /\ parsed.intent \in {QUERY_GRADES, SUMMARY}
                     THEN Put(parsed.entities, "student_id", IntV(state.user_id))
                     ELSE parsed.entities]

\* Node 3 that pins the student only when the extractor named none
parse_intent_and_entities_node_pin_if_absent(state, parsed) ==
    IF state.blocked THEN state
    ELSE [state EXCEPT
            !.calls = @ \cup {"parser.parse"},
            !.intent = parsed.intent,
            !.entities = IF state.role = "student" /\ parsed.intent \in {QUERY_GRADES, SUMMARY}
                            /\ "student_id" \notin DOMAIN parsed.entities
                         THEN Put(parsed.entities, "student_id", IntV(state.user_id))
                         ELSE parsed.entities]

\* Node 3 that takes the role from the extracted entities when they name one
parse_intent_and_entities_node_role_from_entities(state, parsed) ==
    IF state.blocked THEN state
    ELSE [state EXCEPT
            !.calls = @ \cup {"parser.parse"},
            !.intent = parsed.intent,
            !.role = IF "role" \in DOMAIN parsed.entities THEN parsed.entities["role"].v ELSE @,
            !.entities = IF state.role = "student" /\ parsed.intent \in {QUERY_GRADES, SUMMARY}
                         THEN Put(parsed.entities, "student_id", IntV(state.user_id))
                         ELSE parsed.entities]

\* Node 3, for the result parsed == (intent, entities) of parser.parse
parse_intent_and_entities_node(state, parsed) ==
    IF state.blocked THEN state
    ELSE [state EXCEPT
            !.calls = @ \cup {"parser.parse"},
            !.intent = parsed.intent,
            !.entities = IF state.role = "student" /\ parsed.intent \in {QUERY_GRADES, SUMMARY}
                         THEN Put(parsed.entities, "student_id", IntV(state.user_id))
                         ELSE parsed.entities]

\* no name key stands in for an id key
NameAlias_none(field) == ""

\* the name key that stands in for a required id key, "" when there is none
NameAlias(field) ==
    CASE field = "student_id" -> "student_name"
      [] field = "disciplina_id" -> "disciplina_name"
      [] field = "turma_id" -> "turma_name"
      [] OTHER -> ""

\* the loop of check_missing_fields over the required fields
RECURSIVE MissingOf(_, _)
MissingOf(required, entities) ==
    IF Len(required) = 0 THEN <<>>
    ELSE LET field == required[1]
             rest == MissingOf(Tail(required), entities)
         IN  IF field \notin DOMAIN entities \/ IsNone(entities[field])
             THEN IF NameAlias(field) # "" /\ NameAlias(field) \in DOMAIN entities
                  THEN rest
                  ELSE <<field>> \o rest
             ELSE rest

\* Node 3.5
check_missing_fields_node(state) ==
    IF state.blocked THEN state
    ELSE IF IntentOf(state) = FALLBACK
    THEN [state EXCEPT !.missing_fields = <<>>, !.ask_missing_fields = FALSE]
    ELSE LET missing == MissingOf(REQUIRED_FIELDS(IntentOf(state)), state.entities)
         IN  [state EXCEPT !.missing_fields = missing,
                           !.ask_missing_fields = Len(missing) > 0]

\* the edge for missing fields left out of the routing
route_after_parsing_no_ask(state) ==
    IF state.blocked THEN "blocked" ELSE "execute"

route_after_parsing(state) ==
    IF state.blocked THEN "blocked"
    ELSE IF state.ask_missing_fields THEN "ask_fields"
    ELSE "execute"

route_after_execution(state) ==
    IF state.blocked THEN "blocked" ELSE "sanitize"

\* the text an f-string makes of a name entity
NameText(value) ==
    CASE value.t = "str" -> value.v
      [] value.t = "int" -> IntToStr(value.v)
      [] OTHER -> "None"

\* .filter(T.name.ilike(...)).first(), in primary-key order; {} when no row
FirstByName(table, name) ==
    LET hits == {i \in DOMAIN table : ILike(table[i].name, NameText(name))}
    IN  IF hits = {} THEN {} ELSE {SetMin(hits)}

\* resolve_names_to_ids, the student name (teachers only): res is the result
\* so far, with the entities, the exception raised and the tables queried
resolve_student(state, res) ==
    IF "student_name" \in DOMAIN res.entities /\ "student_id" \notin DOMAIN res.entities
       /\ state.role = "teacher"
    THEN LET student == find_student_by_name(state.user_id,
                                             NameText(res.entities["student_name"]))
         IN  IF student.exc # NoExc
             THEN [res EXCEPT !.exc = student.exc, !.reads = @ \o <<"users">>]
             ELSE IF student.found
             THEN [res EXCEPT !.entities = Put(@, "student_id", IntV(student.id)),
                              !.reads = @ \o <<"users", "users">>]
             ELSE [res EXCEPT !.reads = @ \o <<"users", "users">>]
    ELSE res

\* a resolution of a name that overwrites the id the map already has
resolve_name_overwrite(table, key, res) ==
    IF res.exc = NoExc /\ (key \o "_name") \in DOMAIN res.entities
    THEN LET row == FirstByName(table, res.entities[key \o "_name"])
         IN  IF row # {}
             THEN [res EXCEPT !.entities = Put(@, key \o "_id", IntV(CHOOSE d \in row : TRUE)),
                              !.reads = @ \o <<key \o "s">>]
             ELSE [res EXCEPT !.reads = @ \o <<key \o "s">>]
    ELSE res

\* resolve_names_to_ids, a disciplina or turma name: key is "disciplina" or "turma"
resolve_name(table, key, res) ==
    IF res.exc = NoExc /\ (key \o "_name") \in DOMAIN res.entities
       /\ (key \o "_id") \notin DOMAIN res.entities
    THEN LET row == FirstByName(table, res.entities[key \o "_name"])
         IN  IF row # {}
             THEN [res EXCEPT !.entities = Put(@, key \o "_id", IntV(CHOOSE d \in row : TRUE)),
                              !.reads = @ \o <<key \o "s">>]
             ELSE [res EXCEPT !.reads = @ \o <<key \o "s">>]
    ELSE res

\* resolve_names_to_ids: the entities with the ids that could be resolved
resolve_names_to_ids(state) ==
    resolve_name(TurmaTable, "turma",
        resolve_name(DisciplinaTable, "disciplina",
            resolve_student(state, [exc |-> NoExc, entities |-> state.entities,
                                    reads |-> <<>>])))

\* a dispatch that refuses a write by the role the state carries
dispatch_by_state_role(g, state, intent, entities) ==
    IF intent \in {ADD_GRADE, UPDATE_GRADE, CLASS_REPORT} /\ state.role # "teacher"
    THEN Raise("TeacherOnlyError", g, <<>>)
    ELSE CASE intent = ADD_GRADE ->
                 add_grade(g, state.user_id, Get(entities, "student_id"),
                           Get(entities, "disciplina_id"), Get(entities, "turma_id"),
                           Get(entities, "modulo"), Get(entities, "descricao"),
                           Get(entities, "valor"))
           [] intent = UPDATE_GRADE ->
                 update_grade(g, state.user_id, Get(entities, "grade_id"),
                              Get(entities, "valor"), Get(entities, "modulo"),
                              Get(entities, "descricao"))
           [] intent = QUERY_GRADES ->
                 get_grades_by_student(g, state.user_id,
                                       GetOr(entities, "student_id", IntV(state.user_id)),
                                       Get(entities, "disciplina_id"), Get(entities, "modulo"),
                                       Get(entities, "turma_id"))
           [] intent = SUMMARY ->
                 get_grade_summary(g, state.user_id,
                                   GetOr(entities, "student_id", IntV(state.user_id)),
                                   Get(entities, "disciplina_id"))
           [] intent = CLASS_REPORT ->
                 get_class_report(g, state.user_id, Get(entities, "turma_id"),
                                  Get(entities, "disciplina_id"), Get(entities, "modulo"))
           [] OTHER -> Return(NoneV, g, <<>>)

\* the tool call execute_tools dispatches for an intent
dispatch(g, state, intent, entities) ==
    CASE intent = ADD_GRADE ->
            add_grade(g, state.user_id, Get(entities, "student_id"),
                      Get(entities, "disciplina_id"), Get(entities, "turma_id"),
                      Get(entities, "modulo"), Get(entities, "descricao"),
                      Get(entities, "valor"))
      [] intent = UPDATE_GRADE ->
            update_grade(g, state.user_id, Get(entities, "grade_id"), Get(entities, "valor"),
                         Get(entities, "modulo"), Get(entities, "descricao"))
      [] intent = QUERY_GRADES ->
            get_grades_by_student(g, state.user_id,
                                  GetOr(entities, "student_id", IntV(state.user_id)),
                                  Get(entities, "disciplina_id"), Get(entities, "modulo"),
                                  Get(entities, "turma_id"))
      [] intent = SUMMARY ->
            get_grade_summary(g, state.user_id,
                              GetOr(entities, "student_id", IntV(state.user_id)),
                              Get(entities, "disciplina_id"))
      [] intent = CLASS_REPORT ->
            get_class_report(g, state.user_id, Get(entities, "turma_id"),
                             Get(entities, "disciplina_id"), Get(entities, "modulo"))
      [] OTHER -> Return(NoneV, g, <<>>)

\* except clauses that treat a validation error as a refusal
on_exception_validation_blocks(state, exc) ==
    CASE exc = "StudentAccessDenied" ->
            [state EXCEPT !.error = ErrStudentAccess, !.blocked = TRUE,
                          !.blocked_reason = ErrStudentAccess]
      [] exc = "TeacherOnlyError" ->
            [state EXCEPT !.error = ErrTeacherOnly, !.blocked = TRUE,
                          !.blocked_reason = ErrTeacherOnly]
      [] exc = "ValidationError" ->
            [state EXCEPT !.error = ErrValidation, !.blocked = TRUE,
                          !.blocked_reason = ErrValidation]
      [] OTHER -> [state EXCEPT !.error = ErrGeneric]

\* the except clauses of execute_tools
on_exception(state, exc) ==
    CASE exc = "StudentAccessDenied" ->
            [state EXCEPT !.error = ErrStudentAccess, !.blocked = TRUE,
                          !.blocked_reason = ErrStudentAccess]
      [] exc = "TeacherOnlyError" ->
            [state EXCEPT !.error = ErrTeacherOnly, !.blocked = TRUE,
                          !.blocked_reason = ErrTeacherOnly]
      [] exc = "ValidationError" -> [state EXCEPT !.error = ErrValidation]
      [] exc = "FeatureNotAvailableError" ->
            [state EXCEPT !.error = ErrDelete, !.blocked = TRUE, !.blocked_reason = ErrDelete]
      [] OTHER -> [state EXCEPT !.error = ErrGeneric]

ToolOf(intent) ==
    CASE intent = ADD_GRADE -> {"add_grade"}
      [] intent = UPDATE_GRADE -> {"update_grade"}
      [] intent = QUERY_GRADES -> {"get_grades_by_student"}
      [] intent = SUMMARY -> {"get_grade_summary"}
      [] intent = CLASS_REPORT -> {"get_class_report"}
      [] OTHER -> {}

\* Node 5, after the tool call: out is what the call returned or raised
execute_tools_outcome(state, out) ==
    IF out.exc # NoExc
    THEN [state |-> on_exception(state, out.exc), grades |-> out.grades]
    ELSE [state |-> [state EXCEPT !.tool_result = out.result], grades |-> out.grades]

\* Node 5, after resolve_names_to_ids: res is what it returned or raised
execute_tools_call(g, state, res) ==
    IF res.exc # NoExc
    THEN [state |-> on_exception([state EXCEPT !.calls = @ \cup {"resolve_names_to_ids"},
                                               !.reads = @ \o res.reads], res.exc),
          grades |-> g]
    ELSE execute_tools_outcome(
             [state EXCEPT !.calls = @ \cup {"resolve_names_to_ids"} \cup ToolOf(IntentOf(state)),
                           !.reads = @ \o res.reads
                                       \o dispatch(g, state, IntentOf(state), res.entities).reads],
             dispatch(g, state, IntentOf(state), res.entities))

\* database/connection.py, get_db_context: what the context manager does with
\* the session when its body is left, by the exception exc or normally
get_db_context_exit(exc) ==
    IF exc = NoExc THEN <<"commit", "close">> ELSE <<"rollback", "close">>

\* the exception that leaves the try statement of Node 5 when exc is raised
\* in it: the clauses end with except Exception, which is inside the with
\* block, so none does
LeavesTry(exc) == NoExc

\* the exception raised in the try statement of Node 5, or NoExc
RaisedInTry(g, state, res) ==
    IF res.exc # NoExc THEN res.exc
    ELSE dispatch(g, state, IntentOf(state), res.entities).exc

\* Node 5, the with block: the session is made, the body runs, and the
\* context manager is left
execute_tools_with(g, state, res) ==
    LET out == execute_tools_call(g, state, res)
    IN  [out EXCEPT !.state.scope =
            @ \o <<"SessionLocal">> \o get_db_context_exit(LeavesTry(RaisedInTry(g, state, res)))]

\* Node 5: the new state and the grade table the call leaves
execute_tools_node(g, state) ==
    IF state.blocked \/ state.ask_missing_fields THEN [state |-> state, grades |-> g]
    ELSE execute_tools_with(g, state, resolve_names_to_ids(state))

\* Node 6
guardrail_post_node(state) ==
    IF state.blocked \/ ~Truthy(state.tool_result) THEN state
    ELSE [state EXCEPT
            !.calls = @ \cup {"sanitize_response"},
            !.tool_result = sanitize_response(state.user_id, state.role, state.tool_result)]

\* the user-facing name of a field in the prompt for missing fields
field_names(f) ==
    CASE f = "student_id" -> "aluno"
      [] f = "disciplina_id" -> "disciplina"
      [] f = "turma_id" -> "turma"
      [] f = "modulo" -> "módulo"
      [] f = "descricao" -> "descrição da avaliação"
      [] f = "valor" -> "valor da nota"
      [] f = "grade_id" -> "ID da nota"
      [] OTHER -> f

\* ", ".join(names)
RECURSIVE Join(_)
Join(names) == IF Len(names) = 0 THEN ""
               ELSE IF Len(names) = 1 THEN names[1]
               ELSE names[1] \o ", " \o Join(Tail(names))

MissingPrompt(missing) ==
    "Por favor, especifique: " \o Join([i \in 1..Len(missing) |-> field_names(missing[i])])

HelpText ==
    "Posso ajudá-lo com:\n- Consultar notas\n- Ver médias e resumos\n"
    \o "- Adicionar notas (apenas professores)\n"
    \o "- Atualizar notas (apenas professores)\n"
    \o "- Relatórios de turma (apenas professores)"
DoneText == "Operação concluída."

\* _format_result: the heading line of the text it builds for each intent
format_result(intent, result) ==
    LET success == result.t = "dict" /\ Truthy(Get(result.v, "success"))
        listed(k) == result.t = "dict" /\ Truthy(Get(result.v, k))
    IN  CASE intent = ADD_GRADE ->
                IF success THEN "Nota adicionada com sucesso!" ELSE "Erro ao adicionar nota."
          [] intent = UPDATE_GRADE ->
                IF success THEN "Nota atualizada com sucesso!" ELSE "Erro ao atualizar nota."
          [] intent = QUERY_GRADES ->
                IF listed("grades") THEN "Notas de ..." ELSE "Nenhuma nota encontrada."
          [] intent = SUMMARY -> "Resumo de ..."
          [] intent = CLASS_REPORT -> "Relatório da turma ..."
          [] OTHER -> "str(result)"

\* a Node 7 that answers a fallback intent with the help text before it
\* looks at blocked
final_response_node_help_first(state) ==
    IF IntentOf(state) = FALLBACK THEN [state EXCEPT !.response = HelpText]
    ELSE IF state.blocked
    THEN [state EXCEPT !.response = IF state.blocked_reason = Unset
                                    THEN "Pedido bloqueado." ELSE state.blocked_reason]
    ELSE IF state.error # Unset THEN [state EXCEPT !.response = state.error]
    ELSE IF state.ask_missing_fields
    THEN [state EXCEPT !.response = MissingPrompt(state.missing_fields)]
    ELSE IF Truthy(state.tool_result)
    THEN [state EXCEPT !.response = format_result(IntentOf(state), state.tool_result)]
    ELSE [state EXCEPT !.response = DoneText]

\* Node 7
final_response_node(state) ==
    IF state.blocked
    THEN [state EXCEPT !.response = IF state.blocked_reason = Unset
                                    THEN "Pedido bloqueado." ELSE state.blocked_reason]
    ELSE IF state.error # Unset THEN [state EXCEPT !.response = state.error]
    ELSE IF state.ask_missing_fields
    THEN [state EXCEPT !.response = MissingPrompt(state.missing_fields)]
    ELSE IF IntentOf(state) = FALLBACK THEN [state EXCEPT !.response = HelpText]
    ELSE IF Truthy(state.tool_result)
    THEN [state EXCEPT !.response = format_result(IntentOf(state), state.tool_result)]
    ELSE [state EXCEPT !.response = DoneText]

----------------------------------------------------------------------------
(* The pipeline as a state machine: one action per node of the graph.      *)

\* bound of the exploration: rows the grade table may hold
MaxGrades == 2

\* one state dictionary that every run writes
Step_shared(r, state) == st' = [q \in DOMAIN st |-> state]

Step(r, state) == st' = [st EXCEPT ![r] = state]

NoResp == [op |-> "none"]

\* run_agent(user_id, message) is called
StartRun(r, user_id, message) ==
    /\ st[r].pc \in {"idle", "done", "raised"}
    /\ Step(r, initial_state(user_id, message))
    /\ UNCHANGED <<grades, resp>>

load_user_context(r) ==
    /\ st[r].pc = "load_user_context"
    /\ Step(r, [load_user_context_node(st[r]) EXCEPT !.pc = "guardrail_pre"])
    /\ UNCHANGED <<grades, resp>>

guardrail_pre(r) ==
    /\ st[r].pc = "guardrail_pre"
    /\ Step(r, [guardrail_pre_node(st[r]) EXCEPT !.pc = "parse_intent_and_entities"])
    /\ UNCHANGED <<grades, resp>>

\* the chain returns the JSON object llm (a blocked run passes through)
parse_intent_and_entities(r, llm) ==
    /\ st[r].pc = "parse_intent_and_entities"
    /\ ToIntent(llm.intent) = ADD_GRADE => Cardinality(DOMAIN grades) < MaxGrades
    /\ Step(r, [parse_intent_and_entities_node(st[r], parse_llm(llm))
                  EXCEPT !.pc = "check_missing_fields"])
    /\ UNCHANGED <<grades, resp>>

\* get_parser() raises: the parser is constructed on first use, outside any
\* try (settings has no attribute openai_api_key; ChatOpenAI has no key), and
\* the exception leaves the node, graph.invoke and run_agent
get_parser_raises(r) ==
    /\ st[r].pc = "parse_intent_and_entities"
    /\ ~st[r].blocked
    /\ Step(r, [st[r] EXCEPT !.pc = "raised"])
    /\ UNCHANGED <<grades, resp>>

\* the chain raises (no service, no JSON): parse() falls back to the rules
parse_fallback(r) ==
    /\ st[r].pc = "parse_intent_and_entities"
    /\ rule_based_intent(Lower(st[r].message), st[r].role) = ADD_GRADE
          => Cardinality(DOMAIN grades) < MaxGrades
    /\ Step(r, [parse_intent_and_entities_node(
                     st[r], rule_based_parse(st[r].message, st[r].user_id, st[r].role))
                  EXCEPT !.pc = "check_missing_fields"])
    /\ UNCHANGED <<grades, resp>>

\* Node 2 replaced by a stage that allows every request
guardrail_pre_allows(r) ==
    /\ st[r].pc = "guardrail_pre"
    /\ Step(r, [st[r] EXCEPT !.pc = "parse_intent_and_entities"])
    /\ UNCHANGED <<grades, resp>>

check_missing_fields(r) ==
    /\ st[r].pc = "check_missing_fields"
    /\ LET state == check_missing_fields_node(st[r])
           next == route_after_parsing(state)
       IN  Step(r, [state EXCEPT !.pc = IF next = "execute" THEN "execute_tools"
                                         ELSE "final_response"])
    /\ UNCHANGED <<grades, resp>>

\* the state and the table Node 5 leaves, and the edge taken after it
execute_tools_commit(r, out) ==
    /\ Step(r, [out.state EXCEPT !.pc = IF route_after_execution(out.state) = "sanitize"
                                         THEN "guardrail_post" ELSE "final_response"])
    /\ grades' = out.grades

execute_tools(r) ==
    /\ st[r].pc = "execute_tools"
    /\ execute_tools_commit(r, execute_tools_node(grades, st[r]))
    /\ UNCHANGED resp

guardrail_post(r) ==
    /\ st[r].pc = "guardrail_post"
    /\ Step(r, [guardrail_post_node(st[r]) EXCEPT !.pc = "final_response"])
    /\ UNCHANGED <<grades, resp>>

\* Node 6 replaced by the identity
guardrail_post_identity(r) ==
    /\ st[r].pc = "guardrail_post"
    /\ Step(r, [st[r] EXCEPT !.pc = "final_response"])
    /\ UNCHANGED <<grades, resp>>

final_response(r) ==
    /\ st[r].pc = "final_response"
    /\ Step(r, [final_response_node(st[r]) EXCEPT !.pc = "done"])
    /\ UNCHANGED <<grades, resp>>

----------------------------------------------------------------------------
(* api/routes.py: the direct tool endpoints.  A request is a record whose  *)
(* fields have passed the typing of its schema (api/schemas.py): integers  *)
(* are integers, optional fields may be NoneV.  An exception no except     *)
(* clause of the endpoint catches leaves the handler and is answered 500.  *)

\* the answer to a direct call: the status and body sent, and the exception
\* the tool raised (NoExc when it returned or was not called)
Http(op, request, status, body, exc) ==
    [op |-> op, request |-> request, status |-> status, body |-> body, exc |-> exc]

\* the status of the HTTPException an endpoint raises for an exception of
\* the tool, given the exceptions its except clauses name
StatusOf(exc, caught) ==
    IF exc \notin caught THEN 500
    ELSE CASE exc = "TeacherOnlyError" -> 403
           [] exc = "StudentAccessDenied" -> 403
           [] exc = "ValidationError" -> 400
           [] exc = "InvalidUserError" -> 404
           [] OTHER -> 500

\* AddGradeRequest: valor: float = Field(..., ge=0, le=20)
ValorFieldOK(valor) == IsFloat(valor) /\ valor.v >= 0 /\ valor.v <= 2000

SuccessResponse(result) ==
    DictV([success |-> BoolV(TRUE),
           message |-> Get(result.v, "message"),
           data |-> Get(result.v, "evaluation")])

add_grade_direct(request) ==
    /\ IF ~ValorFieldOK(request.valor)
       THEN /\ resp' = Http("add_grade_direct", request, 422, NoneV, NoExc)
            /\ UNCHANGED grades
       ELSE LET out == add_grade(grades, request.teacher_id, IntV(request.student_id),
                                 IntV(request.disciplina_id), IntV(request.turma_id),
                                 request.modulo, request.descricao, request.valor)
            IN  /\ grades' = out.grades
                /\ resp' = IF out.exc = NoExc
                           THEN Http("add_grade_direct", request, 200,
                                     SuccessResponse(out.result), NoExc)
                           ELSE Http("add_grade_direct", request,
                                     StatusOf(out.exc, {"TeacherOnlyError", "ValidationError",
                                                        "InvalidUserError"}),
                                     NoneV, out.exc)
    /\ UNCHANGED st

update_grade_direct(request) ==
    /\ IF ~IsNone(request.valor) /\ ~ValorFieldOK(request.valor)
       THEN /\ resp' = Http("update_grade_direct", request, 422, NoneV, NoExc)
            /\ UNCHANGED grades
       ELSE LET out == update_grade(grades, request.teacher_id, IntV(request.grade_id),
                                    request.valor, request.modulo, request.descricao)
            IN  /\ grades' = out.grades
                /\ resp' = IF out.exc = NoExc
                           THEN Http("update_grade_direct", request, 200,
                                     SuccessResponse(out.result), NoExc)
                           ELSE Http("update_grade_direct", request,
                                     StatusOf(out.exc, {"TeacherOnlyError", "ValidationError"}),
                                     NoneV, out.exc)
    /\ UNCHANGED st

query_grades(request) ==
    /\ LET student_id == IF Truthy(request.student_id) THEN request.student_id
                         ELSE IntV(request.requester_id)
           out == get_grades_by_student(grades, request.requester_id, student_id,
                                        request.disciplina_id, request.modulo,
                                        request.turma_id)
       IN  resp' = IF out.exc = NoExc
                   THEN Http("query_grades", request, 200, out.result, NoExc)
                   ELSE Http("query_grades", request,
                             StatusOf(out.exc, {"StudentAccessDenied", "ValidationError"}),
                             NoneV, out.exc)
    /\ UNCHANGED <<grades, st>>

get_summary(student_id, requester_id, disciplina_id) ==
    /\ LET out == get_grade_summary(grades, requester_id, IntV(student_id), disciplina_id)
           request == [student_id |-> student_id, requester_id |-> requester_id,
                       disciplina_id |-> disciplina_id]
       IN  resp' = IF out.exc = NoExc
                   THEN Http("get_summary", request, 200, out.result, NoExc)
                   ELSE Http("get_summary", request,
                             StatusOf(out.exc, {"StudentAccessDenied", "ValidationError"}),
                             NoneV, out.exc)
    /\ UNCHANGED <<grades, st>>

get_class_report_endpoint(request) ==
    /\ LET out == get_class_report(grades, request.requester_id, IntV(request.turma_id),
                                   request.disciplina_id, request.modulo)
       IN  resp' = IF out.exc = NoExc
                   THEN Http("get_class_report_endpoint", request, 200, out.result, NoExc)
                   ELSE Http("get_class_report_endpoint", request,
                             StatusOf(out.exc, {"TeacherOnlyError", "ValidationError"}),
                             NoneV, out.exc)
    /\ UNCHANGED <<grades, st>>

\* the handler raises HTTPException(405) and has no database session
delete_grade_endpoint(grade_id, teacher_id) ==
    /\ resp' = Http("delete_grade_endpoint", [grade_id |-> grade_id, teacher_id |-> teacher_id],
                  405, NoneV, NoExc)
    /\ UNCHANGED <<grades, st>>

\* tools.add_grade called as a function, as the tests of the tools call it
add_grade_call(args) ==
    /\ LET out == add_grade(grades, args.teacher_id, args.student_id, args.disciplina_id,
                             args.turma_id, args.modulo, args.descricao, args.valor)
       IN  /\ grades' = out.grades
           /\ resp' = Http("add_grade", args, 0, out.result, out.exc)
    /\ UNCHANGED st

\* tools.update_grade called as a function
update_grade_call(args) ==
    /\ LET out == update_grade(grades, args.teacher_id, args.grade_id, args.valor,
                                args.modulo, args.descricao)
       IN  /\ grades' = out.grades
           /\ resp' = Http("update_grade", args, 0, out.result, out.exc)
    /\ UNCHANGED st

\* tools.delete_grade called as a function, with any arguments
delete_grade_call(args) ==
    /\ LET out == delete_grade(grades, args)
       IN  /\ grades' = out.grades
           /\ resp' = Http("delete_grade", args, 0, out.result, out.exc)
    /\ UNCHANGED st

\* a call that is to be made: the function and its arguments
Call(fn, args) == Http("call", [fn |-> fn, args |-> args], 0, NoneV, NoExc)

\* the function fn is to be called
Called(fn) == resp.op = "call" /\ resp.request.fn = fn

\* sanitize_response called for a requester, with the role the system of
\* record holds for it, and a result
sanitize_response_call ==
    /\ Called("sanitize_response")
    /\ resp' = Http("sanitize_response", resp.request.args, 0,
                    sanitize_response(resp.request.args.user_id,
                                      UserTable[resp.request.args.user_id].role,
                                      resp.request.args.response),
                    NoExc)
    /\ UNCHANGED <<grades, st>>

\* a tool called as a function with the arguments of the call to be made:
\* out is what it returns or raises, the table it leaves and the tables it
\* queried
ToolCalled(fn, out) ==
    /\ grades' = out.grades
    /\ resp' = Http(fn, resp.request.args, 0,
                    [result |-> out.result, reads |-> out.reads], out.exc)
    /\ UNCHANGED st

add_grade_called ==
    /\ Called("add_grade")
    /\ LET args == resp.request.args
       IN  ToolCalled("add_grade",
                      add_grade(grades, args.teacher_id, args.student_id, args.disciplina_id,
                                args.turma_id, args.modulo, args.descricao, args.valor))

update_grade_called ==
    /\ Called("update_grade")
    /\ LET args == resp.request.args
       IN  ToolCalled("update_grade",
                      update_grade(grades, args.teacher_id, args.grade_id, args.valor,
                                   args.modulo, args.descricao))

get_grades_by_student_called ==
    /\ Called("get_grades_by_student")
    /\ LET args == resp.request.args
       IN  ToolCalled("get_grades_by_student",
                      get_grades_by_student(grades, args.requester_id, args.student_id,
                                            args.disciplina_id, args.modulo, args.turma_id))

get_grade_summary_called ==
    /\ Called("get_grade_summary")
    /\ LET args == resp.request.args
       IN  ToolCalled("get_grade_summary",
                      get_grade_summary(grades, args.requester_id, args.student_id,
                                        args.disciplina_id))

get_class_report_called ==
    /\ Called("get_class_report")
    /\ LET args == resp.request.args
       IN  ToolCalled("get_class_report",
                      get_class_report(grades, args.requester_id, args.turma_id,
                                       args.disciplina_id, args.modulo))

\* check_pre_guardrail called as Node 2 calls it, for an actor with the role
\* the system of record holds for it, and a message
check_pre_guardrail_call ==
    /\ Called("check_pre_guardrail")
    /\ resp' = Http("check_pre_guardrail", resp.request.args, 0,
                    check_pre_guardrail(resp.request.args.user_id,
                                        UserTable[resp.request.args.user_id].role,
                                        resp.request.args.message),
                    NoExc)
    /\ UNCHANGED <<grades, st>>

\* sanitize_response called on what it returned, for the same requester
sanitize_response_again ==
    /\ resp.op = "sanitize_response"
    /\ resp.body # resp.request.response
    /\ resp' = Http("sanitize_response",
                    [user_id |-> resp.request.user_id, response |-> resp.body], 0,
                    sanitize_response(resp.request.user_id,
                                      UserTable[resp.request.user_id].role, resp.body),
                    NoExc)
    /\ UNCHANGED <<grades, st>>

\* resolve_names_to_ids called for a state with the actor user_id, the role
\* the system of record holds for it, and the entities given
resolve_names_to_ids_apply(user_id, entities) ==
    /\ LET state == [IdleState EXCEPT !.user_id = user_id, !.role = UserTable[user_id].role,
                                       !.entities = entities]
           out == resolve_names_to_ids(state)
       IN  resp' = Http("resolve_names_to_ids", [user_id |-> user_id, entities |-> entities],
                        0, out.entities, out.exc)
    /\ UNCHANGED <<grades, st>>

resolve_names_to_ids_call ==
    /\ Called("resolve_names_to_ids")
    /\ resolve_names_to_ids_apply(resp.request.args.user_id, resp.request.args.entities)

\* resolve_names_to_ids called again, for the entities it returned
resolve_names_to_ids_again ==
    /\ resp.op = "resolve_names_to_ids" /\ resp.exc = NoExc
    /\ resp.body # resp.request.entities
    /\ resolve_names_to_ids_apply(resp.request.user_id, resp.body)

\* find_student_by_name called as a function
find_student_by_name_call ==
    /\ Called("find_student_by_name")
    /\ LET out == find_student_by_name(resp.request.args.requester_id, resp.request.args.name)
       IN  resp' = Http("find_student_by_name", resp.request.args,
                        0, IF out.exc = NoExc /\ out.found THEN IntV(out.id) ELSE NoneV, out.exc)
    /\ UNCHANGED <<grades, st>>

----------------------------------------------------------------------------
(* Inputs of the conversational path *)


UnknownUserId == 9999
\* the actors of the requests: a teacher, the students, and an id of nobody
ActorIds == {1, 2, 3, UnknownUserId}

Messages == {
    "Apagar nota 5",
    "Apaga a nota 5",
    "Mostra as notas do Rui",
    "Quero ver as minhas notas",
    "Adicionar nota 15,5 ao Rui",
    "Qual é a minha média?",
    "Relatório da turma 10a módulo 2",
    "Apagar nota e adicionar nota 10",
    "Adicionar nota do Rui",
    "Bom dia" }

\* entity objects the language model may return
AddFields == [disciplina_id |-> IntV(1), turma_id |-> IntV(1),
              modulo |-> StrV("M1"), descricao |-> StrV("T1")]
LlmEntities == {
    EmptyDict,
    [student_id |-> IntV(3)],
    [student_name |-> StrV("rui"), disciplina_id |-> NoneV],
    [student_id |-> StrV("3"), valor |-> IntV(10)] @@ AddFields,
    [student_name |-> StrV("an"), valor |-> StrV("18.5"), disciplina_name |-> StrV("MAT")]
        @@ AddFields,
    [student_id |-> IntV(2), valor |-> NoneV] @@ AddFields,
    [student_id |-> IntV(2), valor |-> IntV(25)] @@ AddFields,
    [grade_id |-> IntV(1), valor |-> IntV(10)],
    [grade_id |-> IntV(7), valor |-> IntV(10)],
    [turma_id |-> IntV(1)],
    [turma_name |-> StrV("10"), student_id |-> IntV(3)],
    [turma_name |-> StrV("zz")],
    [student_name |-> StrV("zz"), valor |-> IntV(10)] @@ AddFields,
    [role |-> StrV("teacher"), student_id |-> IntV(3)] }

LlmIntents == Intent \cup {"smalltalk"}
LlmOutputs == [intent : LlmIntents, entities : LlmEntities]

\* requests of the direct path
AddGradeRequests ==
    [teacher_id : {1, 2, UnknownUserId}, student_id : {1, 2, 3}, disciplina_id : {1},
     turma_id : {1, 5}, modulo : {StrV("M1")}, descricao : {StrV("T1")},
     valor : {FloatV(1000), FloatV(1850), FloatV(2500)}]
UpdateGradeRequests ==
    [teacher_id : {1, 2, UnknownUserId}, grade_id : {1, 7},
     valor : {NoneV, FloatV(1000), FloatV(2500)}, modulo : {NoneV, StrV("M2")},
     descricao : {NoneV}]
GradesQueryRequests ==
    [requester_id : ActorIds, student_id : {NoneV, IntV(2), IntV(3)},
     disciplina_id : {NoneV, IntV(1)}, turma_id : {NoneV}, modulo : {NoneV}]
ClassReportRequests ==
    [requester_id : ActorIds, turma_id : {1, 5}, disciplina_id : {NoneV},
     modulo : {NoneV, StrV("M2")}]
DeleteArgs == {<<1, 1>>, <<1, 2>>, <<7, 1>>, <<7, 2>>, <<1, UnknownUserId>>}

\* arguments of the tools called as functions: a call that succeeds, and
\* the calls that differ from it in one argument (the caller, the owner, the
\* subject, the class, the value)
AddGradeCall ==
    [teacher_id |-> 1, student_id |-> IntV(3), disciplina_id |-> IntV(1),
     turma_id |-> IntV(1), modulo |-> StrV("M1"), descricao |-> StrV("T1"),
     valor |-> FloatV(2000)]
AddGradeArgs ==
    {AddGradeCall}
    \cup {[AddGradeCall EXCEPT !.teacher_id = t] : t \in {2, 4}}
    \cup {[AddGradeCall EXCEPT !.student_id = IntV(u)] : u \in {1, 2, 7}}
    \cup {[AddGradeCall EXCEPT !.disciplina_id = IntV(5)],
          [AddGradeCall EXCEPT !.turma_id = IntV(5)]}
    \cup {[AddGradeCall EXCEPT !.valor = FloatV(h)] : h \in {0 - 50, 0, 2001}}
UpdateGradeCall ==
    [teacher_id |-> 4, grade_id |-> IntV(1), valor |-> FloatV(1250), modulo |-> NoneV,
     descricao |-> NoneV]
UpdateGradeArgs ==
    {UpdateGradeCall}
    \cup {[UpdateGradeCall EXCEPT !.teacher_id = t] : t \in {1, 2}}
    \cup {[UpdateGradeCall EXCEPT !.grade_id = IntV(i)] : i \in {2, 7}}
    \cup {[UpdateGradeCall EXCEPT !.valor = v] : v \in {FloatV(0 - 50), FloatV(2001)}}
    \cup {[UpdateGradeCall EXCEPT !.valor = NoneV, !.modulo = StrV("M2")],
          [UpdateGradeCall EXCEPT !.valor = NoneV, !.descricao = StrV("T2")],
          [UpdateGradeCall EXCEPT !.valor = FloatV(2001), !.modulo = StrV("M2"),
                                  !.descricao = StrV("T2")]}

\* inputs of the specification with fairness
LiveMessages ==
    {"Apagar nota 5", "Mostra as notas do Rui", "Adicionar nota 15,5 ao Rui", "Bom dia"}
LiveLlmOutputs ==
    [intent : {ADD_GRADE, UPDATE_GRADE, QUERY_GRADES, CLASS_REPORT, "smalltalk"},
     entities : {EmptyDict,
                 [student_id |-> IntV(3)],
                 [student_id |-> StrV("3"), valor |-> IntV(10)] @@ AddFields,
                 [student_id |-> IntV(2), valor |-> NoneV] @@ AddFields,
                 [grade_id |-> IntV(7), valor |-> IntV(10)],
                 [turma_id |-> IntV(1)]}]

\* inputs of the specification of both paths
BothMessages == {"Apagar nota 5", "Quero ver as minhas notas"}
BothLlmOutputs ==
    [intent : {ADD_GRADE, UPDATE_GRADE, QUERY_GRADES},
     entities : {[student_id |-> IntV(3), valor |-> IntV(10)] @@ AddFields,
                 [grade_id |-> IntV(1), valor |-> FloatV(1850)]}]
BothAddRequests ==
    [teacher_id : {1, 2}, student_id : {2}, disciplina_id : {1}, turma_id : {1},
     modulo : {StrV("M1")}, descricao : {StrV("T1")}, valor : {FloatV(1850)}]
BothUpdateRequests ==
    [teacher_id : {1, 2}, grade_id : {1, 2}, valor : {FloatV(1000)},
     modulo : {NoneV, StrV("M2")}, descricao : {NoneV}]

Init ==
    /\ grades = <<>>
    /\ st = [r \in Runs |-> IdleState]
    /\ resp = NoResp

\* the steps of the conversational path but the two guardrail stages, for
\* given sets of inputs
StageSteps(r, actors, messages, llms) ==
    \/ \E user_id \in actors, message \in messages : StartRun(r, user_id, message)
    \/ load_user_context(r)
    \/ \E llm \in llms : parse_intent_and_entities(r, llm)
    \/ get_parser_raises(r)
    \/ parse_fallback(r)
    \/ check_missing_fields(r)
    \/ execute_tools(r)
    \/ final_response(r)

\* the steps of the conversational path
RunSteps(actors, messages, llms) ==
    \E r \in Runs :
        \/ StageSteps(r, actors, messages, llms)
        \/ guardrail_pre(r)
        \/ guardrail_post(r)

\* the calls of the direct path that write, or are asked to delete
DirectWrites(adds, updates, deletes) ==
    \/ \E request \in adds :
          /\ Cardinality(DOMAIN grades) < MaxGrades
          /\ add_grade_direct(request)
    \/ \E request \in updates : update_grade_direct(request)
    \/ \E args \in deletes : delete_grade_endpoint(args[1], args[2])
    \/ \E args \in deletes : delete_grade_call(args)

\* the calls of the direct path that read
DirectReads ==
    \/ \E request \in GradesQueryRequests : query_grades(request)
    \/ \E student_id \in {2, 3, UnknownUserId}, requester_id \in ActorIds,
          disciplina_id \in {NoneV, IntV(1)} :
          get_summary(student_id, requester_id, disciplina_id)
    \/ \E request \in ClassReportRequests : get_class_report_endpoint(request)

\* the conversational path
Next == RunSteps(ActorIds, Messages, LlmOutputs)

\* the direct path
NextDirect == DirectWrites(AddGradeRequests, UpdateGradeRequests, DeleteArgs) \/ DirectReads

\* both paths, over the inputs that write or are refused
NextBoth ==
    \/ RunSteps({1, 2}, BothMessages, BothLlmOutputs)
    \/ DirectWrites(BothAddRequests, BothUpdateRequests, {<<1, 1>>, <<1, 2>>})

\* the conversational path with Guardrail-Pre disabled
NextNoPre ==
    \E r \in Runs :
        \/ StageSteps(r, ActorIds, Messages, LlmOutputs)
        \/ guardrail_pre_allows(r)
        \/ guardrail_post(r)

\* the conversational path with Guardrail-Post disabled
NextNoPost ==
    \E r \in Runs :
        \/ StageSteps(r, ActorIds, Messages, LlmOutputs)
        \/ guardrail_pre(r)
        \/ guardrail_post_identity(r)

\* the write tools called as functions
NextTools ==
    \/ \E args \in AddGradeArgs :
          /\ Cardinality(DOMAIN grades) < MaxGrades
          /\ add_grade_call(args)
    \/ \E args \in UpdateGradeArgs : update_grade_call(args)

\* entity maps handed to the resolution: for the student, the subject and
\* the class, no key, a name that matches, a name that matches nothing, an
\* id, or a name next to an id it does not resolve to
StudentEntities ==
    {EmptyDict, [student_name |-> StrV("rui")], [student_name |-> StrV("an")],
     [student_name |-> StrV("zz")], [student_id |-> IntV(2)],
     [student_name |-> StrV("rui"), student_id |-> IntV(2)],
     [student_name |-> StrV("rui"), student_id |-> NoneV]}
DisciplinaEntities ==
    {EmptyDict, [disciplina_name |-> StrV("mat")], [disciplina_name |-> StrV("zz")],
     [disciplina_id |-> IntV(1)], [disciplina_name |-> StrV("mat"), disciplina_id |-> IntV(5)]}
TurmaEntities ==
    {EmptyDict, [turma_name |-> StrV("10")], [turma_name |-> StrV("zz")],
     [turma_id |-> IntV(1)], [turma_name |-> StrV("10"), turma_id |-> IntV(5)]}
ResolveEntities ==
    {s @@ d @@ t : s \in StudentEntities, d \in DisciplinaEntities, t \in TurmaEntities}

\* the name resolution called as a function: a call of resolve_names_to_ids
\* for an actor of the system of record and an entity map, or a call of
\* find_student_by_name for any requester and a name, is to be made
InitResolve ==
    /\ grades = <<>>
    /\ st = [r \in Runs |-> IdleState]
    /\ resp \in {Call("resolve_names_to_ids", [user_id |-> user_id, entities |-> entities]) :
                    user_id \in UserIds, entities \in ResolveEntities}
               \cup {Call("find_student_by_name", [requester_id |-> requester_id, name |-> name]) :
                        requester_id \in UserIds \cup {UnknownUserId},
                        name \in {"rui", "an", "zz"}}

NextResolve ==
    \/ resolve_names_to_ids_call
    \/ resolve_names_to_ids_again
    \/ find_student_by_name_call

\* results handed to the sanitizer: a record of student 2, a record of
\* student 3, a map of student 3 (student_id) that holds a record of student
\* 2, a map with no owner key that holds a record of student 3, a text and
\* None; lists and maps of these; lists and maps of those
GradeRecord(owner, valor) == DictV([user_id |-> IntV(owner), valor |-> FloatV(valor)])
Results0 ==
    {GradeRecord(2, 1000), GradeRecord(3, 1850),
     DictV([student_id |-> IntV(3), grades |-> ListV(<<GradeRecord(2, 1200)>>)]),
     DictV([student |-> DictV([id |-> IntV(3), name |-> StrV("Rui")]),
            best |-> GradeRecord(3, 1900)]),
     StrV("ok"), NoneV}
Results1 ==
    Results0 \cup {ListV(<<a>>) : a \in Results0}
             \cup {ListV(<<a, b>>) : a \in Results0, b \in Results0}
             \cup {DictV([data |-> a, more |-> b]) : a \in Results0, b \in Results0}
Results2 ==
    Results1 \cup {ListV(<<a>>) : a \in Results1} \cup {DictV([result |-> a]) : a \in Results1}

\* the sanitizer called as a function, for a student and for a teacher
InitSanitize ==
    /\ grades = <<>>
    /\ st = [r \in Runs |-> IdleState]
    /\ resp \in {Call("sanitize_response", [user_id |-> user_id, response |-> response]) :
                    user_id \in {1, 2}, response \in Results2}

NextSanitize == sanitize_response_call \/ sanitize_response_again

\* two calls of run_agent under way at a time, each with the initial_state
\* it builds, by a teacher or by a student: the language model reads a
\* request to add a grade of another student, to update it, or to query that
\* student's grades, and Guardrail-Pre blocks one of the messages for the
\* student
ConcurrentRuns == {1, 2}
ConcurrentMessages == {"Quero ver as minhas notas", "Mostra as notas do Rui"}
ConcurrentLlmOutputs ==
    {[intent |-> ADD_GRADE,
      entities |-> [student_id |-> IntV(3), valor |-> IntV(10)] @@ AddFields],
     [intent |-> UPDATE_GRADE, entities |-> [grade_id |-> IntV(1), valor |-> FloatV(1850)]],
     [intent |-> QUERY_GRADES, entities |-> [student_id |-> IntV(3)]]}

InitConcurrent ==
    /\ grades = <<>>
    /\ st = [r \in ConcurrentRuns |-> IdleState]
    /\ resp = NoResp

NextConcurrent ==
    \E r \in ConcurrentRuns :
        \/ StageSteps(r, {1, 2}, ConcurrentMessages, ConcurrentLlmOutputs)
        \/ guardrail_pre(r)
        \/ guardrail_post(r)

\* a step of a node of the graph: graph.invoke runs the nodes of a run one
\* after the other until END or until an exception leaves it
NodeStep ==
    \E r \in Runs :
        \/ load_user_context(r) \/ guardrail_pre(r)
        \/ \E llm \in LiveLlmOutputs : parse_intent_and_entities(r, llm)
        \/ get_parser_raises(r) \/ parse_fallback(r)
        \/ check_missing_fields(r) \/ execute_tools(r)
        \/ guardrail_post(r) \/ final_response(r)

\* the conversational path, over requests that are blocked, refused, fail
\* and succeed
NextLive == RunSteps({1, 2, UnknownUserId}, LiveMessages, LiveLlmOutputs)

\* Node 5 entered with a state the earlier stages did not build: the role the
\* state carries is any role, whatever the users table records for the
\* actor, and Guardrail-Pre and the field check have run or have not; the
\* table is empty or holds a grade of student 2
DispatchEntities ==
    {EmptyDict, [student_id |-> IntV(2)], [student_id |-> IntV(3)],
     [student_name |-> StrV("rui")],
     [student_id |-> IntV(3), valor |-> FloatV(1000)] @@ AddFields,
     [grade_id |-> IntV(1), valor |-> FloatV(1850)],
     [turma_id |-> IntV(1)]}
DispatchStates ==
    {[IdleState EXCEPT !.pc = "execute_tools", !.user_id = user_id,
                       !.message = "Quero ver as minhas notas", !.role = role,
                       !.intent = intent, !.entities = entities, !.calls = calls] :
        user_id \in {1, 2, UnknownUserId}, role \in {"teacher", "student"},
        intent \in {ADD_GRADE, UPDATE_GRADE, QUERY_GRADES, SUMMARY, CLASS_REPORT},
        entities \in DispatchEntities,
        calls \in {{}, {"check_pre_guardrail", "parser.parse"}}}

InitDispatch ==
    /\ grades \in {<<>>,
                   add_grade(<<>>, 1, IntV(2), IntV(1), IntV(1), StrV("M1"), StrV("T1"),
                             FloatV(1200)).grades}
    /\ st \in [Runs -> DispatchStates]
    /\ resp = NoResp

NextDispatch == \E r \in Runs : execute_tools(r) \/ guardrail_post(r) \/ final_response(r)

\* messages handed to Guardrail-Pre: requests for the sender's own grades
\* or average, with and without a subject or a module; requests for another
\* student's grades; and messages that give a student_id in the three ways
\* the pattern reads it
OwnGradesMessages ==
    {"Quero ver as minhas notas", "Qual é a minha média?", "Mostra as minhas notas"}
OwnGradesOfMessages ==
    {"Quero ver as minhas notas de Matemática", "As minhas notas do módulo 2",
     "Qual é a minha média de Matemática?"}
OtherStudentMessages == {"Mostra as notas do Rui", "ver notas da Maria", "Bom dia"}
StudentIdForms == {"student_id = ", "student_id: ", "notas com student_id="}
StudentIdNumbers == {2, 3, 5, 23, 32}
StudentIdMessage(form, n) == form \o IntToStr(n)
GuardrailPreMessages ==
    OwnGradesMessages \cup OwnGradesOfMessages \cup OtherStudentMessages
    \cup {StudentIdMessage(form, n) : form \in StudentIdForms, n \in StudentIdNumbers}

\* Guardrail-Pre called as a function, for the students and for a teacher
InitGuardrailPre ==
    /\ grades = <<>>
    /\ st = [r \in Runs |-> IdleState]
    /\ resp \in {Call("check_pre_guardrail", [user_id |-> user_id, message |-> message]) :
                    user_id \in {1, 2, 3}, message \in GuardrailPreMessages}

NextGuardrailPre == check_pre_guardrail_call

\* calls of the five tools by a student and by a teacher, for a student, a
\* grade, a subject and a class that exist and for ones that do not
ToolCalls ==
    {Call("add_grade", [AddGradeCall EXCEPT !.teacher_id = t, !.student_id = IntV(u),
                                            !.disciplina_id = IntV(d), !.turma_id = IntV(c)]) :
        t \in {1, 2}, u \in {3, 7}, d \in {1, 5}, c \in {1, 5}}
    \cup {Call("update_grade", [UpdateGradeCall EXCEPT !.teacher_id = t,
                                                       !.grade_id = IntV(i)]) :
             t \in {1, 2}, i \in {1, 7}}
    \cup {Call("get_grades_by_student",
               [requester_id |-> q, student_id |-> IntV(u), disciplina_id |-> NoneV,
                modulo |-> NoneV, turma_id |-> NoneV]) : q \in {1, 2}, u \in {2, 3, 7}}
    \cup {Call("get_grade_summary",
               [requester_id |-> q, student_id |-> IntV(u), disciplina_id |-> NoneV]) :
             q \in {1, 2}, u \in {2, 3, 7}}
    \cup {Call("get_class_report",
               [requester_id |-> q, turma_id |-> IntV(c), disciplina_id |-> NoneV,
                modulo |-> NoneV]) : q \in {1, 2}, c \in {1, 5}}

\* the tools called as functions, on a table that is empty or holds a grade
\* of student 3
InitToolCalls ==
    /\ grades \in {<<>>,
                   add_grade(<<>>, 1, IntV(3), IntV(1), IntV(1), StrV("M1"), StrV("T1"),
                             FloatV(1200)).grades}
    /\ st = [r \in Runs |-> IdleState]
    /\ resp \in ToolCalls

NextToolCalls ==
    \/ add_grade_called \/ update_grade_called
    \/ get_grades_by_student_called \/ get_grade_summary_called
    \/ get_class_report_called

Spec == Init /\ [][Next]_vars
\* weak fairness of NodeStep, WF_vars(NodeStep), written out: a node step is
\* enabled exactly when a run is at a node (every node action is enabled at
\* its position, and changes the position)
AtNode(r) == st[r].pc \notin {"idle", "done", "raised"}
FairNodeStep == []<>(\A r \in Runs : ~AtNode(r)) \/ []<><<NodeStep>>_vars
SpecLive == Init /\ [][NextLive]_vars /\ FairNodeStep
SpecTools == Init /\ [][NextTools]_vars
SpecToolCalls == InitToolCalls /\ [][NextToolCalls]_vars
SpecGuardrailPre == InitGuardrailPre /\ [][NextGuardrailPre]_vars
SpecDispatch == InitDispatch /\ [][NextDispatch]_vars
SpecResolve == InitResolve /\ [][NextResolve]_vars
SpecSanitize == InitSanitize /\ [][NextSanitize]_vars
SpecConcurrent == InitConcurrent /\ [][NextConcurrent]_vars
SpecNoPre == Init /\ [][NextNoPre]_vars
SpecNoPost == Init /\ [][NextNoPost]_vars
SpecDirect == Init /\ [][NextDirect]_vars
SpecBoth == Init /\ [][NextBoth]_vars

TypeOK == /\ DOMAIN st = Runs
          /\ \A i \in DOMAIN grades : grades[i].id = i

----------------------------------------------------------------------------
(* Properties *)

\* the values of the owner keys (user_id, student_id) of the maps of a value,
\* at any depth
RECURSIVE OwnerValues(_)
OwnerValues(x) ==
    IF x.t = "dict"
    THEN {x.v[k] : k \in DOMAIN x.v \cap {"user_id", "student_id"}}
         \cup UNION {OwnerValues(x.v[k]) : k \in DOMAIN x.v}
    ELSE IF x.t = "list"
    THEN UNION {OwnerValues(x.v[i]) : i \in 1..Len(x.v)}
    ELSE {}

IsStudent(user_id) == user_id \in DOMAIN UserTable /\ UserTable[user_id].role = "student"
Finished(r) == st[r].pc = "done"

\* C1: for every finished run whose actor the system of record holds as a
\* student with id A, every map at any depth of the final tool_result that
\* carries an owner key (user_id or student_id) has it equal to A.
C1_StudentSeesOnlyOwnRecords ==
    \A r \in Runs :
        (Finished(r) /\ IsStudent(st[r].user_id))
            => OwnerValues(run_output(st[r]).tool_result) \subseteq {IntV(st[r].user_id)}

\* a student's finished run returns that student's grades while the table
\* also holds a grade of another student
C1_Witness ==
    \E r \in Runs :
        /\ Finished(r) /\ IsStudent(st[r].user_id)
        /\ st[r].intent = QUERY_GRADES
        /\ IntV(st[r].user_id) \in OwnerValues(run_output(st[r]).tool_result)
        /\ \E i \in DOMAIN grades : grades[i].user_id = st[r].user_id
        /\ \E i \in DOMAIN grades : grades[i].user_id # st[r].user_id

\* the target ids a caller may pass: registered ids, an id of nobody, None and text
TargetValues == {IntV(u) : u \in UserIds \cup {UnknownUserId}} \cup {NoneV, StrV("2")}
Filters == {NoneV, IntV(1)}

\* the student a direct query is about: the  student_id or requester_id  of query_grades
QueriedStudent(request) ==
    IF Truthy(request.student_id) THEN request.student_id ELSE IntV(request.requester_id)

\* C2: for a registered requester, enforce_student_data_access succeeds for
\* every target when the requester is a teacher, succeeds for a student only
\* when the target is the requester, and otherwise raises StudentAccessDenied;
\* get_grades_by_student and get_grade_summary called by a student for another
\* id raise StudentAccessDenied and return no data, whatever the table holds,
\* and so do the direct calls that reach them.
C2_ReadPredicate ==
    /\ \A requester \in UserIds, target \in TargetValues :
          enforce_student_data_access(requester, target)
            = IF UserTable[requester].role = "teacher" \/ target = IntV(requester)
              THEN NoExc ELSE "StudentAccessDenied"
    /\ \A requester \in StudentIds, f \in Filters :
        \A target \in TargetValues \ {IntV(requester)} :
          /\ get_grades_by_student(grades, requester, target, f, NoneV, NoneV).exc
                = "StudentAccessDenied"
          /\ get_grades_by_student(grades, requester, target, f, NoneV, NoneV).result = NoneV
          /\ get_grade_summary(grades, requester, target, f).exc = "StudentAccessDenied"
          /\ get_grade_summary(grades, requester, target, f).result = NoneV
    /\ (resp.op = "query_grades" /\ IsStudent(resp.request.requester_id)
          /\ QueriedStudent(resp.request) # IntV(resp.request.requester_id))
        => (resp.exc = "StudentAccessDenied" /\ resp.body = NoneV /\ resp.status = 403)
    /\ (resp.op = "get_summary" /\ IsStudent(resp.request.requester_id)
          /\ resp.request.student_id # resp.request.requester_id)
        => (resp.exc = "StudentAccessDenied" /\ resp.body = NoneV /\ resp.status = 403)

\* a student asked for the grades of another student who has one, and was refused
C2_Witness ==
    /\ resp.op = "query_grades"
    /\ IsStudent(resp.request.requester_id)
    /\ resp.request.student_id \in {IntV(u) : u \in StudentIds \ {resp.request.requester_id}}
    /\ \E i \in DOMAIN grades : IntV(grades[i].user_id) = resp.request.student_id
    /\ resp.exc = "StudentAccessDenied"

\* a run r leaves the Operation Executor in this step
LeavesExecutor(r) == st[r].pc = "execute_tools" /\ st'[r].pc # "execute_tools"

\* the values a caller may pass for a grade
ValorValues == {NoneV, FloatV(1000), FloatV(2500)}

\* C3: every grade record carries a teacher's id in updated_by; add_grade and
\* update_grade called by a student raise TeacherOnlyError and leave the table
\* as it is, for every argument list and every table reached on either path;
\* a student's run leaves the Operation Executor with the table unchanged, and
\* blocked by the teacher-only error when it asked for a write.
C3_OnlyTeachersWrite ==
    /\ [](\A i \in DOMAIN grades : grades[i].updated_by \in TeacherIds)
    /\ [](\A s \in StudentIds, target \in TargetValues, valor \in ValorValues :
            /\ add_grade(grades, s, target, IntV(1), IntV(1), StrV("M1"), StrV("T1"), valor)
                 = Raise("TeacherOnlyError", grades, <<"users">>)
            /\ update_grade(grades, s, target, valor, NoneV, NoneV)
                 = Raise("TeacherOnlyError", grades, <<"users">>))
    /\ [][\A r \in Runs :
            (LeavesExecutor(r) /\ IsStudent(st[r].user_id))
               => /\ grades' = grades
                  /\ (IntentOf(st[r]) \in {ADD_GRADE, UPDATE_GRADE}
                       /\ ~st[r].blocked /\ ~st[r].ask_missing_fields)
                      => (st'[r].blocked /\ st'[r].error = ErrTeacherOnly
                          /\ IsNone(st'[r].tool_result))]_vars
    /\ [][(resp' # resp /\ resp'.op \in {"add_grade_direct", "update_grade_direct"}
            /\ IsStudent(resp'.request.teacher_id) /\ resp'.status # 422)
           => (grades' = grades /\ resp'.exc = "TeacherOnlyError" /\ resp'.status = 403)]_vars

\* a student's run that asked to change an existing grade ended refused, and
\* a student's direct write was refused, the table holding teachers' records
C3_Witness ==
    /\ \E r \in Runs :
          /\ Finished(r) /\ IsStudent(st[r].user_id)
          /\ st[r].intent = UPDATE_GRADE
          /\ Get(st[r].entities, "grade_id") \in {IntV(i) : i \in DOMAIN grades}
          /\ st[r].blocked /\ st[r].error = ErrTeacherOnly
    /\ resp.op = "add_grade_direct" /\ IsStudent(resp.request.teacher_id)
    /\ resp.exc = "TeacherOnlyError"
    /\ grades # <<>>

\* C4: over the runs and the direct calls of any actors the set of grade ids
\* never loses an element; delete_grade raises FeatureNotAvailableError for
\* every argument list and leaves the table alone; the delete endpoint answers
\* 405 for every grade_id and teacher_id, calls no tool and leaves the table alone.
C4_NoDeletion ==
    /\ [][DOMAIN grades \subseteq DOMAIN grades']_vars
    /\ [](\A args \in DeleteArgs \cup {<<>>} :
            delete_grade(grades, args) = Raise("FeatureNotAvailableError", grades, <<>>))
    /\ [](resp.op = "delete_grade" => resp.exc = "FeatureNotAvailableError")
    /\ [](resp.op = "delete_grade_endpoint"
            => (resp.status = 405 /\ resp.exc = NoExc /\ resp.body = NoneV))
    /\ [][(resp' # resp /\ resp'.op \in {"delete_grade", "delete_grade_endpoint"})
             => grades' = grades]_vars

\* the delete endpoint was called for a grade that exists, by its teacher,
\* and the grade is still there
C4_Witness ==
    /\ resp.op = "delete_grade_endpoint"
    /\ resp.request.grade_id \in DOMAIN grades
    /\ resp.request.teacher_id = grades[resp.request.grade_id].updated_by
    /\ resp.status = 405

\* a request to delete a grade: a verb of deletion and a word for a grade
DeletionVerbs == {"apag", "delet", "remov", "exclu", "elimin"}
GradeNouns == {"nota", "avaliação", "grade", "evaluation"}
DeletionShaped(message) ==
    AnyWord(DeletionVerbs, Lower(message)) /\ AnyWord(GradeNouns, Lower(message))

\* what a run has called when it entered the Operation Executor
ExecutorCalls ==
    {"resolve_names_to_ids", "add_grade", "update_grade", "get_grades_by_student",
     "get_grade_summary", "get_class_report"}
ReachedExecutor(r) == st[r].calls \cap ExecutorCalls # {}

\* C5: a finished run whose request asks to delete a grade, whatever the role
\* of its actor, is blocked, has not entered the Operation Executor and has
\* read nothing but the actor's own user row.
C5_DeletionRequestsBlocked ==
    \A r \in Runs :
        (Finished(r) /\ DeletionShaped(st[r].message))
            => /\ st[r].blocked
               /\ ~ReachedExecutor(r)
               /\ st[r].reads = <<"users">>

\* C5, for the requests the patterns of deletion match
C5_MatchedDeletionBlocked ==
    \A r \in Runs :
        (Finished(r) /\ matches_any_pattern(Lower(st[r].message), DELETE_PATTERNS))
            => /\ st[r].blocked
               /\ ~ReachedExecutor(r)
               /\ st[r].reads = <<"users">>

\* the ids of the students a value is about: the owner keys of its maps and
\* the id of each map it holds under the key student, at any depth
RECURSIVE SubjectIds(_)
SubjectIds(x) ==
    IF x.t = "dict"
    THEN {x.v[k] : k \in DOMAIN x.v \cap {"user_id", "student_id"}}
         \cup {Get(x.v[k].v, "id") : k \in {kk \in DOMAIN x.v \cap {"student"} : x.v[kk].t = "dict"}}
         \cup UNION {SubjectIds(x.v[k]) : k \in DOMAIN x.v}
    ELSE IF x.t = "list"
    THEN UNION {SubjectIds(x.v[i]) : i \in 1..Len(x.v)}
    ELSE {}

\* a value with the aggregates of a class
HasClassData(x) == x.t = "dict" /\ DOMAIN x.v \cap {"students", "class_statistics"} # {}

\* C6: with Guardrail-Pre replaced by a stage that always allows, the
\* tool_result of a student's run is, at every stage, for every message and
\* every intent and entity map the extractor returns, about no other student:
\* it names no student but the actor and holds no aggregate of a class.
C6_NoPreStudentReadsOwnOnly ==
    \A r \in Runs :
        IsStudent(st[r].user_id)
            => /\ SubjectIds(st[r].tool_result) \subseteq {IntV(st[r].user_id)}
               /\ ~HasClassData(st[r].tool_result)

\* a student's request that Guardrail-Pre would have refused went through
\* and finished with the student's own grades, another student having one
C6_Witness ==
    \E r \in Runs :
        /\ Finished(r) /\ IsStudent(st[r].user_id)
        /\ ~check_pre_guardrail(st[r].user_id, "student", st[r].message).allowed
        /\ ~st[r].blocked
        /\ IntV(st[r].user_id) \in SubjectIds(st[r].tool_result)
        /\ \E i \in DOMAIN grades : grades[i].user_id = st[r].user_id
        /\ \E i \in DOMAIN grades : grades[i].user_id # st[r].user_id

\* the tables a run has queried
TablesRead(r) == {st[r].reads[i] : i \in 1..Len(st[r].reads)}

\* the classes a caller may name: one that exists, one that does not, none
TurmaValues == {IntV(1), IntV(5), NoneV}

\* a student's run that asked for a class report and got past the field check
StudentClassReport(r) ==
    /\ IsStudent(st[r].user_id)
    /\ st[r].intent = CLASS_REPORT
    /\ st[r].pc \in {"guardrail_post", "final_response", "done"}
    /\ ~st[r].ask_missing_fields

\* get_class_report called by a student raises TeacherOnlyError after the
\* lookup of the caller's role alone, whatever the class and the table
ClassReportRefused ==
    \A s \in StudentIds, turma_id \in TurmaValues, f \in Filters :
        get_class_report(grades, s, turma_id, f, NoneV)
            = Raise("TeacherOnlyError", grades, <<"users">>)

InRun(r) == st[r].pc \notin {"idle", "done"}

\* C8: once a run is blocked, every later stage leaves blocked true, calls
\* neither the extractor nor the resolver nor an operation, reads and writes
\* no table, and leaves the intent, the entities and tool_result as they are;
\* tool_result is null whenever blocked is true, the final output included.
C8_BlockedAbsorbing ==
    /\ [](\A r \in Runs : st[r].blocked => IsNone(run_output(st[r]).tool_result))
    /\ [][\A r \in Runs :
            (st[r].blocked /\ InRun(r))
               => /\ st'[r].blocked
                  /\ st'[r].blocked_reason = st[r].blocked_reason
                  /\ st'[r].tool_result = st[r].tool_result
                  /\ st'[r].intent = st[r].intent
                  /\ st'[r].entities = st[r].entities
                  /\ st'[r].calls = st[r].calls
                  /\ st'[r].reads = st[r].reads
                  /\ grades' = grades]_vars

\* a run blocked by Guardrail-Pre has finished without the extractor, and
\* with the table holding a grade
C8_Witness ==
    \E r \in Runs :
        /\ Finished(r) /\ st[r].blocked
        /\ st[r].intent = BLOCKED
        /\ "parser.parse" \notin st[r].calls
        /\ IsNone(st[r].tool_result)
        /\ grades # <<>>

\* a run that is past the field check with fields to ask for
AsksFields(r) ==
    /\ st[r].pc \in {"final_response", "done"}
    /\ ~st[r].blocked
    /\ st[r].ask_missing_fields

\* C9: when the field check of a run that is not blocked leaves a non-empty
\* missing list, the next stage is the response formatter; from there on the
\* run has not entered the Operation Executor, has read nothing but the
\* actor's user row, has no tool_result and no error and is not blocked, the
\* table is as the field check found it, and the finished run's response is
\* the prompt that names every missing field.
C9_MissingFieldGating ==
    /\ [][\A r \in Runs :
            (st[r].pc = "check_missing_fields" /\ ~st[r].blocked
             /\ st'[r].pc # "check_missing_fields" /\ st'[r].missing_fields # <<>>)
               => (st'[r].pc = "final_response" /\ st'[r].ask_missing_fields
                   /\ ~st'[r].blocked /\ grades' = grades)]_vars
    /\ [][\A r \in Runs : (AsksFields(r) /\ InRun(r)) => (AsksFields(r)' /\ grades' = grades)]_vars
    /\ [](\A r \in Runs :
            AsksFields(r)
               => /\ st[r].missing_fields # <<>>
                  /\ ~ReachedExecutor(r)
                  /\ "sanitize_response" \notin st[r].calls
                  /\ st[r].reads = <<"users">>
                  /\ IsNone(st[r].tool_result)
                  /\ st[r].error = Unset
                  /\ Finished(r)
                       => /\ SubSeq(st[r].response, 1, 24) = "Por favor, especifique: "
                          /\ \A i \in 1..Len(st[r].missing_fields) :
                                IsSubstr(field_names(st[r].missing_fields[i]), st[r].response))

\* a teacher's add_grade without a value has finished asking for the value
\* alone, the table holding a grade
C9_Witness ==
    \E r \in Runs :
        /\ Finished(r) /\ AsksFields(r)
        /\ st[r].intent = ADD_GRADE
        /\ st[r].missing_fields = <<"valor">>
        /\ st[r].response = "Por favor, especifique: valor da nota"
        /\ grades # <<>>

\* the table of required fields, as the claim gives it
RequiredTable(intent) ==
    CASE intent = "add_grade" ->
            <<"student_id", "disciplina_id", "turma_id", "modulo", "descricao", "valor">>
      [] intent = "update_grade" -> <<"grade_id">>
      [] intent = "class_report" -> <<"turma_id">>
      [] OTHER -> <<>>

\* the name key that satisfies the requirement of an id key
AliasKeys(field) ==
    CASE field = "student_id" -> {"student_name"}
      [] field = "disciplina_id" -> {"disciplina_name"}
      [] field = "turma_id" -> {"turma_name"}
      [] OTHER -> {}

\* the required fields, in table order, whose key is absent and whose alias is absent
ExpectedMissing(intent, entities) ==
    LET Absent(field) == field \notin DOMAIN entities /\ AliasKeys(field) \cap DOMAIN entities = {}
    IN  SelectSeq(RequiredTable(intent), Absent)

\* a run is past the field check
PastFieldCheck(r) == st[r].pc \in {"execute_tools", "guardrail_post", "final_response", "done"}

\* C10: for every intent and every entity map the extractor hands over,
\* missing_fields after the field check is exactly the sub-sequence, in table
\* order, of the intent's required fields whose direct key is absent and for
\* which no name-alias key is present, and ask_missing_fields is true exactly
\* when that list is non-empty.  (The entity maps of a run hold no null: the
\* parser drops null and empty values, so the test the code makes for a null
\* under a present key never decides.)
C10_MissingFieldsExact ==
    \A r \in Runs :
        /\ \A k \in DOMAIN st[r].entities : ~IsNone(st[r].entities[k])
        /\ PastFieldCheck(r)
             => /\ st[r].missing_fields = ExpectedMissing(IntentOf(st[r]), st[r].entities)
                /\ st[r].ask_missing_fields = (st[r].missing_fields # <<>>)

\* an add_grade with the student given by name and no value: the student is
\* not asked for, the value is
C10_Witness ==
    \E r \in Runs :
        /\ PastFieldCheck(r)
        /\ st[r].intent = ADD_GRADE
        /\ "student_name" \in DOMAIN st[r].entities
        /\ "student_id" \notin DOMAIN st[r].entities
        /\ st[r].missing_fields
             = <<"disciplina_id", "turma_id", "modulo", "descricao", "valor">>
        /\ st[r].ask_missing_fields

----------------------------------------------------------------------------
\* the direct operations that return data of the gradebook to a requester
ReadOps == {"query_grades", "get_summary", "get_class_report_endpoint"}

\* what Guardrail-Post delivers to a registered requester for a result
Sanitized(requester_id, result) ==
    sanitize_response(requester_id, UserTable[requester_id].role, result)

\* C11: every result a direct read returns to a requester is a result the
\* authorization check of the operation let through and is what the
\* Guardrail-Post sanitizer delivers to that requester for it.
C11_DirectResultsSanitized ==
    (resp.op \in ReadOps /\ resp.status = 200)
        => /\ resp.request.requester_id \in UserIds
           /\ resp.exc = NoExc
           /\ resp.body = Sanitized(resp.request.requester_id, resp.body)

\* C11, on the conversational path: a finished run that returns a result has
\* called the operation and the sanitizer, and returns what the sanitizer
\* delivers to its actor.
C11_RunResultsSanitized ==
    \A r \in Runs :
        (Finished(r) /\ Truthy(st[r].tool_result))
            => /\ st[r].user_id \in UserIds
               /\ ToolOf(st[r].intent) # {}
               /\ ToolOf(st[r].intent) \cup {"sanitize_response"} \subseteq st[r].calls
               /\ st[r].role = UserTable[st[r].user_id].role
               /\ st[r].tool_result = Sanitized(st[r].user_id, st[r].tool_result)

----------------------------------------------------------------------------
\* the direct operations that take an actor id, and the actor of a call
WriteOps == {"add_grade_direct", "update_grade_direct"}

DirectActor ==
    IF resp.op \in WriteOps THEN resp.request.teacher_id ELSE resp.request.requester_id

\* the request passed the validation of its schema (no 422), so that the
\* handler ran
ReachedHandler == resp.status # 422

\* the status the error kinds of the direct path are to be answered with
ExpectedStatus(exc) ==
    CASE exc \in {"TeacherOnlyError", "StudentAccessDenied"} -> 403
      [] exc = "ValidationError" -> 400
      [] exc = "InvalidUserError" -> 404
      [] exc = "FeatureNotAvailableError" -> 405
      [] OTHER -> 500

\* C12: every direct operation answers a failure of its tool with the status
\* of its kind (role or ownership violation 403, not found or validation 400,
\* unresolved actor 404), deletion is answered 405, and a call that reaches
\* its handler with an actor id that is not registered is answered 404 by
\* each of the five operations.
C12_FailuresDistinguished ==
    /\ (resp.op \in WriteOps \cup ReadOps /\ resp.exc # NoExc)
          => resp.status = ExpectedStatus(resp.exc)
    /\ resp.op = "delete_grade_endpoint" => resp.status = 405
    /\ (resp.op \in WriteOps \cup ReadOps /\ ReachedHandler /\ DirectActor \notin UserIds)
          => resp.status = 404

\* C12, the part the except clauses carry: role and ownership violations are
\* answered 403, validation errors 400, deletion 405, and add_grade_direct
\* answers an unregistered teacher id with 404.
C12_CaughtFailuresDistinguished ==
    /\ (resp.op \in WriteOps \cup ReadOps
          /\ resp.exc \in {"TeacherOnlyError", "StudentAccessDenied", "ValidationError"})
          => resp.status = ExpectedStatus(resp.exc)
    /\ resp.op = "delete_grade_endpoint" => resp.status = 405
    /\ (resp.op = "add_grade_direct" /\ ReachedHandler /\ resp.request.teacher_id \notin UserIds)
          => resp.status = 404

----------------------------------------------------------------------------
\* the exceptions an operation the executor dispatches, or the resolution of
\* names before it, can raise: those of the authorization service and of the
\* tools, and errors of the runtime and the database
AuthorizationFailures == {"TeacherOnlyError", "StudentAccessDenied"}
OperationExceptions ==
    AuthorizationFailures \cup {"ValidationError", "TypeError", "IntegrityError", "OperationalError"}

\* the exception the executor meets in a run that is at execute_tools, NoExc
\* when the resolution and the operation return
ExecutorException(r) ==
    IF resolve_names_to_ids(st[r]).exc # NoExc THEN resolve_names_to_ids(st[r]).exc
    ELSE dispatch(grades, st[r], IntentOf(st[r]), resolve_names_to_ids(st[r]).entities).exc

\* the state s classifies the exception exc as the executor is to
Classified(s, exc) ==
    /\ s.tool_result = NoneV
    /\ exc \in AuthorizationFailures =>
          /\ s.blocked
          /\ s.blocked_reason = (IF exc = "TeacherOnlyError" THEN ErrTeacherOnly
                                 ELSE ErrStudentAccess)
          /\ s.error = s.blocked_reason
    /\ exc = "ValidationError" => (~s.blocked /\ s.error = ErrValidation)
    /\ exc \notin AuthorizationFailures \cup {"ValidationError"} =>
          (~s.blocked /\ s.error = ErrGeneric)

\* a run enters the executor neither blocked nor asked for fields, and leaves it
Executes(r) == LeavesExecutor(r) /\ ~st[r].blocked /\ ~st[r].ask_missing_fields

\* C13: when the operation the executor dispatches raises, an authorization
\* failure leaves the run blocked with the fixed refusal text of its kind, a
\* ValidationError leaves an error and blocked=false, any other exception
\* leaves the generic error and blocked=false, and tool_result stays unset;
\* the except clauses classify every exception of an operation this way.
C13_ErrorClassification ==
    [][\A r \in Runs :
          /\ (Executes(r) /\ ExecutorException(r) # NoExc)
                => Classified(st'[r], ExecutorException(r))
          /\ (st[r].pc = "execute_tools" /\ ~st[r].blocked)
                => \A exc \in OperationExceptions :
                      Classified(on_exception(st[r], exc), exc)]_vars

\* a teacher's run asked to update a record that does not exist and ended
\* with the validation error, not blocked
C13_Witness ==
    \E r \in Runs :
        /\ Finished(r) /\ st[r].intent = UPDATE_GRADE
        /\ "update_grade" \in st[r].calls
        /\ st[r].error = ErrValidation /\ ~st[r].blocked
        /\ st[r].tool_result = NoneV

\* a student's run asked for a write and ended blocked by the teacher-only error
C13_AuthorizationWitness ==
    \E r \in Runs :
        /\ Finished(r) /\ st[r].intent = ADD_GRADE
        /\ "add_grade" \in st[r].calls
        /\ st[r].blocked /\ st[r].blocked_reason = ErrTeacherOnly

----------------------------------------------------------------------------
\* the stages after context load, by the names they are recorded under
LaterStages ==
    {"check_pre_guardrail", "parser.parse", "resolve_names_to_ids", "sanitize_response",
     "add_grade", "update_grade", "get_grades_by_student", "get_grade_summary",
     "get_class_report"}

\* C14: a run whose actor id is not registered is blocked from context load
\* on, calls none of Guardrail-Pre's check, the extractor, the resolution and
\* the operations, computes no missing field, reads nothing but the user
\* table once, and ends blocked with the not-found message as its response;
\* get_user raises InvalidUserError for an id that is not registered.
C14_UnknownActorHalts ==
    /\ \A r \in Runs :
        (st[r].user_id \notin UserIds /\ st[r].pc \notin {"idle", "load_user_context"})
            => /\ st[r].blocked
               /\ st[r].blocked_reason = ErrUserNotFound
               /\ st[r].calls \cap LaterStages = {}
               /\ st[r].reads = <<"users">>
               /\ st[r].intent = Unset /\ st[r].entities = EmptyDict
               /\ st[r].missing_fields = <<>> /\ ~st[r].ask_missing_fields
               /\ st[r].tool_result = NoneV
               /\ st[r].pc # "execute_tools"
               /\ Finished(r) => (run_output(st[r]).blocked
                                    /\ run_output(st[r]).response = ErrUserNotFound)
    /\ AuthorizationService_get_user(UnknownUserId).exc = "InvalidUserError"
    /\ get_user(UnknownUserId).exc = "InvalidUserError"

\* a run of an unregistered actor has finished
C14_Witness ==
    \E r \in Runs :
        /\ Finished(r) /\ st[r].user_id = UnknownUserId
        /\ st[r].response = ErrUserNotFound
        /\ st[r].message = "Mostra as notas do Rui"

----------------------------------------------------------------------------
\* the message of a run matches a deletion, a third-party or a write pattern
MatchesDelete(r) == matches_any_pattern(Lower(st[r].message), DELETE_PATTERNS)
MatchesOther(r) ==
    matches_any_pattern(Lower(st[r].message), OTHER_STUDENT_PATTERNS(st[r].user_id))
MatchesWrite(r) == matches_any_pattern(Lower(st[r].message), WRITE_PATTERNS)

\* the run of a registered actor has just left Guardrail-Pre
LeftGuardrailPre(r) == st[r].pc = "parse_intent_and_entities" /\ st[r].user_id \in UserIds

\* C15: a run that leaves Guardrail-Pre is blocked with the deletion reason
\* when its message matches a deletion pattern, whatever the role; otherwise
\* a student's run is blocked with the third-party reason when the message
\* matches a third-party pattern, otherwise with the write reason when it
\* matches a write pattern; every other run is allowed.  A teacher's run is
\* blocked exactly when the message matches a deletion pattern.
C15_GuardrailPreOrder ==
    \A r \in Runs :
        LeftGuardrailPre(r) =>
            /\ MatchesDelete(r)
                  => (st[r].blocked /\ st[r].blocked_reason = ReasonDelete)
            /\ (~MatchesDelete(r) /\ IsStudent(st[r].user_id) /\ MatchesOther(r))
                  => (st[r].blocked /\ st[r].blocked_reason = ReasonOtherStudent)
            /\ (~MatchesDelete(r) /\ IsStudent(st[r].user_id) /\ ~MatchesOther(r)
                  /\ MatchesWrite(r))
                  => (st[r].blocked /\ st[r].blocked_reason = ReasonWrite)
            /\ (~MatchesDelete(r)
                  /\ (IsStudent(st[r].user_id) => (~MatchesOther(r) /\ ~MatchesWrite(r))))
                  => (~st[r].blocked /\ st[r].blocked_reason = Unset)
            /\ ~IsStudent(st[r].user_id) => (st[r].blocked <=> MatchesDelete(r))
            /\ st[r].blocked => st[r].intent = BLOCKED

\* a student's message that matches a deletion and a write pattern was
\* blocked with the deletion reason
C15_Witness ==
    \E r \in Runs :
        /\ LeftGuardrailPre(r) /\ IsStudent(st[r].user_id)
        /\ MatchesDelete(r) /\ MatchesWrite(r)
        /\ st[r].message = "Apagar nota e adicionar nota 10"
        /\ st[r].blocked_reason = ReasonDelete

\* a student's message that matches a third-party and a write pattern was
\* blocked with the third-party reason
C15_ThirdPartyBeforeWrite ==
    \E r \in Runs :
        /\ LeftGuardrailPre(r) /\ IsStudent(st[r].user_id)
        /\ ~MatchesDelete(r) /\ MatchesOther(r) /\ MatchesWrite(r)
        /\ st[r].blocked_reason = ReasonOtherStudent

----------------------------------------------------------------------------
\* the run of a student whose extracted intent is a query or a summary
StudentQuery(r) == IsStudent(st[r].user_id) /\ st[r].intent \in {QUERY_GRADES, SUMMARY}

\* the student_id the executor hands to get_grades_by_student or
\* get_grade_summary for a run that is at execute_tools
HandedStudentId(r) ==
    GetOr(resolve_names_to_ids(st[r]).entities, "student_id", IntV(st[r].user_id))

\* C16: in a student's run whose extracted intent is query_grades or summary,
\* the entity map holds student_id = actor id from the extraction on, the
\* student_id the executor hands to the operation is the actor id, the run
\* is never refused for access to another student, and the result it returns
\* is about the actor.
C16_StudentPinning ==
    \A r \in Runs :
        StudentQuery(r) =>
            /\ Get(st[r].entities, "student_id") = IntV(st[r].user_id)
            /\ st[r].pc = "execute_tools" => HandedStudentId(r) = IntV(st[r].user_id)
            /\ st[r].error # ErrStudentAccess
            /\ Truthy(st[r].tool_result)
                  => Get(Get(st[r].tool_result.v, "student").v, "id") = IntV(st[r].user_id)

\* a student's query finished with a result although the extractor had put
\* the name of another student in the entity map
C16_Witness ==
    \E r \in Runs :
        /\ Finished(r) /\ StudentQuery(r)
        /\ "student_name" \in DOMAIN st[r].entities
        /\ st[r].entities["student_name"] = StrV("rui")
        /\ Truthy(st[r].tool_result)
        /\ "get_grades_by_student" \in st[r].calls

----------------------------------------------------------------------------
\* the role the system of record holds for an id, Unset for an id of nobody
RecordedRole(user_id) ==
    IF user_id \in UserIds THEN UserTable[user_id].role ELSE Unset

\* the run has loaded its context
ContextLoaded(r) == st[r].pc \notin {"idle", "load_user_context"}

\* the requests of the direct operations
DirectRequests ==
    AddGradeRequests \cup UpdateGradeRequests \cup GradesQueryRequests \cup ClassReportRequests

\* C17: from context load to the end of a run, the role of its state, which
\* Guardrail-Pre, the pinning of the student and Guardrail-Post read, is the
\* role the system of record holds for the actor id, whatever the message
\* and whatever the extractor returned (a role among the entities included);
\* the initial state of run_agent and the requests of the direct operations
\* carry no role.
C17_RoleFromRecord ==
    /\ \A r \in Runs :
          /\ ContextLoaded(r) => st[r].role = RecordedRole(st[r].user_id)
          /\ (ContextLoaded(r) /\ st[r].intent \in {QUERY_GRADES, SUMMARY}
                /\ RecordedRole(st[r].user_id) = "student")
                => Get(st[r].entities, "student_id") = IntV(st[r].user_id)
          /\ (Finished(r) /\ Truthy(st[r].tool_result))
                => st[r].tool_result = Sanitized(st[r].user_id, st[r].tool_result)
    /\ \A user_id \in ActorIds, message \in Messages :
          initial_state(user_id, message).role = Unset
    /\ \A request \in DirectRequests : "role" \notin DOMAIN request

\* a student's run finished with a result, as a student, although the
\* extractor had returned the role teacher among the entities
C17_Witness ==
    \E r \in Runs :
        /\ Finished(r) /\ IsStudent(st[r].user_id)
        /\ Get(st[r].entities, "role") = StrV("teacher")
        /\ st[r].role = "student"
        /\ Truthy(st[r].tool_result)

----------------------------------------------------------------------------
\* the records of a grade table are well formed: the value is in 0..20, the
\* owner is a registered student, the subject and the class exist
StoredGradesOK(g) ==
    \A i \in DOMAIN g :
        /\ g[i].valor >= 0 /\ g[i].valor <= 2000
        /\ g[i].user_id \in StudentIds
        /\ g[i].disciplina_id \in DOMAIN DisciplinaTable
        /\ g[i].turma_id \in DOMAIN TurmaTable

\* the step is a call of add_grade that returned: the table gains exactly one
\* record, owned by the student and last modified by the teacher of the call
AddCreatesOne ==
    (resp'.op = "add_grade" /\ resp'.exc = NoExc)
        => /\ resp'.request.teacher_id \in TeacherIds
           /\ \E id \in DOMAIN grades' \ DOMAIN grades :
                /\ DOMAIN grades' = DOMAIN grades \cup {id}
                /\ IntV(grades'[id].user_id) = resp'.request.student_id
                /\ grades'[id].updated_by = resp'.request.teacher_id
                /\ grades'[id].valor = resp'.request.valor.v
           /\ \A i \in DOMAIN grades : grades'[i] = grades[i]

\* C18: over every sequence of add_grade and update_grade calls, every grade
\* record has a value between 0 and 20, an owner that is a registered
\* student, and a subject and a class that exist; an add_grade that succeeds
\* for teacher T and student S creates exactly one record, owned by S and
\* last modified by T, and leaves the other records as they are.
C18_StoredGradeInvariant ==
    [][StoredGradesOK(grades') /\ AddCreatesOne]_vars

\* a second record was added, by the second teacher, after the first had
\* been updated to another value
C18_Witness ==
    /\ resp.op = "add_grade" /\ resp.exc = NoExc
    /\ resp.request.teacher_id = 4
    /\ Cardinality(DOMAIN grades) = 2
    /\ \E i \in DOMAIN grades : grades[i].valor = 1250
    /\ \E i \in DOMAIN grades : grades[i].updated_by = 4 /\ grades[i].valor = 2000

----------------------------------------------------------------------------
\* the value of a field after an update that supplies new (NoneV: not supplied)
Supplied(new, old) == IF IsNone(new) THEN old ELSE new.v

\* the step is a call of update_grade: when it returns, the record it names
\* has the supplied fields changed and the calling teacher as last modifier,
\* and its owner, subject, class and date are as before; when it raises, the
\* table is as before; every other record is as before
UpdateFrame ==
    resp'.op = "update_grade" =>
        /\ DOMAIN grades' = DOMAIN grades
        /\ resp'.exc # NoExc => grades' = grades
        /\ resp'.exc = NoExc =>
              /\ resp'.request.grade_id.v \in DOMAIN grades
              /\ \A i \in DOMAIN grades \ {resp'.request.grade_id.v} : grades'[i] = grades[i]
              /\ LET old == grades[resp'.request.grade_id.v]
                     new == grades'[resp'.request.grade_id.v]
                 IN  /\ new.valor = Supplied(resp'.request.valor, old.valor)
                     /\ new.modulo = Supplied(resp'.request.modulo, old.modulo)
                     /\ new.descricao = Supplied(resp'.request.descricao, old.descricao)
                     /\ new.updated_by = resp'.request.teacher_id
                     /\ new.id = old.id /\ new.user_id = old.user_id
                     /\ new.disciplina_id = old.disciplina_id
                     /\ new.turma_id = old.turma_id /\ new.date = old.date

\* no step changes the owner, the subject or the class of a record
OwnerFixed ==
    \A i \in DOMAIN grades :
        /\ i \in DOMAIN grades'
        /\ grades'[i].user_id = grades[i].user_id
        /\ grades'[i].disciplina_id = grades[i].disciplina_id
        /\ grades'[i].turma_id = grades[i].turma_id

----------------------------------------------------------------------------
\* the statistics of a summary, and a summary of no records
StatisticKeys == {"average", "min_grade", "max_grade"}

EmptySummary(result) ==
    /\ result.t = "dict"
    /\ "total_evaluations" \in DOMAIN result.v
    /\ result.v["total_evaluations"] = IntV(0)

NullStatistics(result) ==
    \A key \in StatisticKeys : key \in DOMAIN result.v /\ result.v[key] = NoneV

\* a finished run that asked for a summary and was delivered a result
SummaryDelivered(r) ==
    /\ Finished(r) /\ st[r].intent = SUMMARY
    /\ "get_grade_summary" \in st[r].calls
    /\ ~st[r].blocked /\ st[r].error = Unset

\* C20: a summary of no matching records is not an error on either path: the
\* result delivered to the requester, by the pipeline or by the endpoint,
\* reports a total of 0 and carries average, minimum and maximum, each null.
C20_EmptySummaryDelivered ==
    /\ \A r \in Runs :
          (SummaryDelivered(r) /\ EmptySummary(st[r].tool_result))
              => NullStatistics(st[r].tool_result)
    /\ (resp.op = "get_summary" /\ resp.status = 200 /\ EmptySummary(resp.body))
          => NullStatistics(resp.body)

\* C20, where the sanitizer does not act (a teacher's run, the endpoint): the
\* empty summary is delivered with total 0 and the three statistics null; a
\* student's run is delivered total 0 and none of the three keys.
C20_EmptySummaryByRequester ==
    /\ \A r \in Runs :
          (SummaryDelivered(r) /\ EmptySummary(st[r].tool_result))
              => IF st[r].role = "teacher"
                 THEN NullStatistics(st[r].tool_result)
                 ELSE StatisticKeys \cap DOMAIN st[r].tool_result.v = {}
    /\ (resp.op = "get_summary" /\ resp.status = 200 /\ EmptySummary(resp.body))
          => NullStatistics(resp.body)

\* a student's finished summary run with an empty result, and a teacher's
C20_StudentWitness ==
    \E r \in Runs :
        /\ SummaryDelivered(r) /\ EmptySummary(st[r].tool_result)
        /\ st[r].user_id = 2 /\ st[r].role = "student"

C20_TeacherWitness ==
    \E r \in Runs :
        /\ SummaryDelivered(r) /\ EmptySummary(st[r].tool_result)
        /\ st[r].role = "teacher"

----------------------------------------------------------------------------
\* the students enrolled in a class, and the rows of the grade table a class
\* report with given filters counts for one of them
Enrolled(turma_id) ==
    {u \in StudentIds : [user_id |-> u, turma_id |-> turma_id] \in AlunoTurma}

Matching(u, request) ==
    {i \in DOMAIN grades :
        /\ grades[i].user_id = u /\ grades[i].turma_id = request.turma_id
        /\ request.disciplina_id # NoneV => grades[i].disciplina_id = request.disciplina_id.v
        /\ request.modulo # NoneV => grades[i].modulo = request.modulo.v}

\* the sum of the total_evaluations of the entries of a report
RECURSIVE SumOfCounts(_)
SumOfCounts(entries) ==
    IF Len(entries) = 0 THEN 0
    ELSE entries[1].v["total_evaluations"].v + SumOfCounts(Tail(entries))

\* the entry of a report is the one of student u for the request
EntryOf(entry, u, request) ==
    LET rows == Matching(u, request)
        values == {grades[i].valor : i \in rows}
    IN  /\ entry.v["student_id"] = IntV(u)
        /\ entry.v["total_evaluations"] = IntV(Cardinality(rows))
        /\ {entry.v["grades"].v[k].v["id"].v : k \in 1..Len(entry.v["grades"].v)} = rows
        /\ Len(entry.v["grades"].v) = Cardinality(rows)
        /\ IF rows = {}
           THEN /\ entry.v["average"] = NoneV
                /\ entry.v["min_grade"] = NoneV /\ entry.v["max_grade"] = NoneV
           ELSE /\ entry.v["min_grade"] = FloatV(SetMin(values))
                /\ entry.v["max_grade"] = FloatV(SetMax(values))
                /\ entry.v["average"].t = "float"
                /\ entry.v["average"].v >= SetMin(values)
                /\ entry.v["average"].v <= SetMax(values)

\* the aggregate of a report is the one of the pooled values of its entries;
\* a report with no value at all has no aggregate
AggregateOf(stats, entries) ==
    LET graded == {k \in 1..Len(entries) : entries[k].v["total_evaluations"].v > 0}
    IN  IF graded = {} THEN stats = NoneV /\ SumOfCounts(entries) = 0
        ELSE /\ stats.t = "dict"
             /\ stats.v["total_grades"] = IntV(SumOfCounts(entries))
             /\ stats.v["min"] = FloatV(SetMin({entries[k].v["min_grade"].v : k \in graded}))
             /\ stats.v["max"] = FloatV(SetMax({entries[k].v["max_grade"].v : k \in graded}))
             /\ stats.v["mean"].v >= stats.v["min"].v /\ stats.v["mean"].v <= stats.v["max"].v
             /\ stats.v["median"].v >= stats.v["min"].v /\ stats.v["median"].v <= stats.v["max"].v

\* C21: the class report a teacher is answered lists exactly one entry for
\* every student enrolled in the class, a student with no matching grade
\* having count 0 and null statistics, and its aggregate is over the pooled
\* values of the listed students: its count is the sum of the counts of the
\* entries and its min and max are the min and max of theirs.
C21_ClassReport ==
    (resp.op = "get_class_report_endpoint" /\ resp.status = 200)
        => LET entries == resp.body.v["students"].v
               class == Enrolled(resp.request.turma_id)
           IN  /\ resp.request.requester_id \in TeacherIds
               /\ Len(entries) = Cardinality(class)
               /\ resp.body.v["total_students"] = IntV(Cardinality(class))
               /\ \A u \in class :
                     \E k \in 1..Len(entries) : EntryOf(entries[k], u, resp.request)
               /\ AggregateOf(resp.body.v["class_statistics"], entries)

\* a report with the module filter in which one student has a matching grade
\* and the other has none, next to a grade the filter leaves out
C21_Witness ==
    /\ resp.op = "get_class_report_endpoint" /\ resp.status = 200
    /\ resp.request.modulo = StrV("M2")
    /\ Cardinality(DOMAIN grades) = 2
    /\ \E k \in 1..2 : resp.body.v["students"].v[k].v["total_evaluations"] = IntV(0)
    /\ resp.body.v["class_statistics"] # NoneV
    /\ resp.body.v["class_statistics"].v["total_grades"] = IntV(1)

\* a report in which both students of the class have a grade
C21_BothGradedWitness ==
    /\ resp.op = "get_class_report_endpoint" /\ resp.status = 200
    /\ \A k \in 1..2 : resp.body.v["students"].v[k].v["total_evaluations"] = IntV(1)
    /\ resp.body.v["class_statistics"].v["total_grades"] = IntV(2)
    /\ resp.body.v["class_statistics"].v["min"] # resp.body.v["class_statistics"].v["max"]

----------------------------------------------------------------------------
\* the keys of an entity map that carry a name, and the kinds of name
NameKinds == {"student", "disciplina", "turma"}
NameKeys == {kind \o "_name" : kind \in NameKinds}

\* the last call was a name resolution by a student, by a teacher
ResolvedFor(role) ==
    resp.op = "resolve_names_to_ids" /\ UserTable[resp.request.user_id].role = role

\* C22: the entity map resolved for a student actor has a student_id only if
\* the incoming map had one, and then the same; find_student_by_name called by
\* a requester who is not a teacher raises (TeacherOnlyError for a student,
\* InvalidUserError for an id the system of record does not hold) and returns
\* no student.
C22_NoStudentResolutionForStudents ==
    /\ ResolvedFor("student")
          => /\ resp.exc = NoExc
             /\ "student_id" \in DOMAIN resp.body
                   => /\ "student_id" \in DOMAIN resp.request.entities
                      /\ resp.body["student_id"] = resp.request.entities["student_id"]
    /\ (resp.op = "find_student_by_name" /\ resp.request.requester_id \notin TeacherIds)
          => /\ resp.exc = IF resp.request.requester_id \in UserIds
                           THEN "TeacherOnlyError" ELSE "InvalidUserError"
             /\ resp.body = NoneV

\* a student's map with the name of another student and no id came back
\* without an id, and with the subject resolved
C22_Witness ==
    /\ ResolvedFor("student") /\ resp.request.user_id = 2
    /\ resp.request.entities = [student_name |-> StrV("rui"), disciplina_name |-> StrV("mat")]
    /\ "student_id" \notin DOMAIN resp.body
    /\ resp.body["disciplina_id"] = IntV(1)

\* the same map resolved for a teacher has the id of the student named
C22_TeacherWitness ==
    /\ ResolvedFor("teacher")
    /\ resp.request.entities = [student_name |-> StrV("rui"), disciplina_name |-> StrV("mat")]
    /\ resp.body["student_id"] = IntV(3)

\* a student searched for a name that matches and was refused
C22_SearchWitness ==
    /\ resp.op = "find_student_by_name" /\ resp.request.requester_id = 2
    /\ resp.request.name = "rui" /\ resp.exc = "TeacherOnlyError"

\* the step resolves the map the last resolution returned, for the same actor
ResolvesAgain ==
    /\ resp.op = "resolve_names_to_ids" /\ resp.exc = NoExc
    /\ resp'.op = "resolve_names_to_ids"
    /\ resp'.request = [user_id |-> resp.request.user_id, entities |-> resp.body]

\* C23: for every role, resolving a map with no *_name key returns an equal
\* map, an *_id key of the incoming map keeps its value whatever its *_name
\* alias resolves to, and resolving the map a resolution returned returns the
\* same map.
C23_ResolutionNoOp ==
    /\ [](resp.op = "resolve_names_to_ids"
            => /\ resp.exc = NoExc
               /\ NameKeys \cap DOMAIN resp.request.entities = {}
                     => resp.body = resp.request.entities
               /\ \A kind \in NameKinds :
                     (kind \o "_id") \in DOMAIN resp.request.entities
                        => resp.body[kind \o "_id"] = resp.request.entities[kind \o "_id"]
               /\ \A key \in DOMAIN resp.request.entities :
                     key \in DOMAIN resp.body /\ resp.body[key] = resp.request.entities[key])
    /\ [][ResolvesAgain => resp'.exc = NoExc /\ resp'.body = resp.body]_vars

\* a teacher's map whose class name resolves to class 1 and which carries the
\* class id 5 came back with the id 5, and a second resolution of a map with
\* a resolved student name has happened
C23_Witness ==
    /\ ResolvedFor("teacher")
    /\ "turma_name" \in DOMAIN resp.request.entities
    /\ resp.request.entities["turma_name"] = StrV("10")
    /\ resp.body["turma_id"] = IntV(5)

\* a resolution of a map that a resolution had returned with the id it added
C23_AgainWitness ==
    /\ ResolvedFor("teacher")
    /\ {"student_name", "student_id", "disciplina_name", "disciplina_id"}
           \subseteq DOMAIN resp.request.entities
    /\ resp.request.entities["student_name"] = StrV("rui")
    /\ resp.request.entities["student_id"] = IntV(3)
    /\ resp.body = resp.request.entities

----------------------------------------------------------------------------
\* a map whose owner key (user_id or student_id) differs from the id A
Foreign(x, A) ==
    /\ x.t = "dict"
    /\ \E key \in {"user_id", "student_id"} \cap DOMAIN x.v : x.v[key] # IntV(A)

\* the values other than maps and lists of a tree, and the number of its maps
RECURSIVE Scalars(_)
Scalars(x) ==
    IF x.t = "dict" THEN UNION {Scalars(x.v[key]) : key \in DOMAIN x.v}
    ELSE IF x.t = "list" THEN UNION {Scalars(x.v[i]) : i \in 1..Len(x.v)}
    ELSE {x}

RECURSIVE SumOver(_, _)
SumOver(f, S) ==
    IF S = {} THEN 0 ELSE LET k == CHOOSE k \in S : TRUE IN f[k] + SumOver(f, S \ {k})

RECURSIVE Maps(_)
Maps(x) ==
    IF x.t = "dict" THEN 1 + SumOver([key \in DOMAIN x.v |-> Maps(x.v[key])], DOMAIN x.v)
    ELSE IF x.t = "list" THEN SumOver([i \in 1..Len(x.v) |-> Maps(x.v[i])], 1..Len(x.v))
    ELSE 0

\* the same of the part of a tree that is not within a map foreign to A
RECURSIVE VisibleScalars(_, _)
VisibleScalars(x, A) ==
    IF Foreign(x, A) THEN {}
    ELSE IF x.t = "dict" THEN UNION {VisibleScalars(x.v[key], A) : key \in DOMAIN x.v}
    ELSE IF x.t = "list" THEN UNION {VisibleScalars(x.v[i], A) : i \in 1..Len(x.v)}
    ELSE {x}

RECURSIVE VisibleMaps(_, _)
VisibleMaps(x, A) ==
    IF Foreign(x, A) THEN 0
    ELSE IF x.t = "dict"
    THEN 1 + SumOver([key \in DOMAIN x.v |-> VisibleMaps(x.v[key], A)], DOMAIN x.v)
    ELSE IF x.t = "list"
    THEN SumOver([i \in 1..Len(x.v) |-> VisibleMaps(x.v[i], A)], 1..Len(x.v))
    ELSE 0

\* the last call was a call of the sanitizer for a requester of the role
SanitizedFor(role) ==
    resp.op = "sanitize_response" /\ UserTable[resp.request.user_id].role = role

\* C24: what sanitize returns for a student A and a tree of maps and lists
\* holds no map whose owner key differs from A and nothing that was nested in
\* one, at any depth and within lists and maps alike: its maps are the maps
\* of the tree outside such maps, its values are values of the tree outside
\* such maps, and every such value but None is in it; a tree that is such a
\* map comes back as None.  For a teacher it returns the tree unchanged.
C24_SanitizeRemovesForeignMaps ==
    /\ SanitizedFor("student")
          => LET A == resp.request.user_id
                 tree == resp.request.response
             IN  /\ OwnerValues(resp.body) \subseteq {IntV(A)}
                 /\ Foreign(tree, A) => resp.body = NoneV
                 /\ Maps(resp.body) = VisibleMaps(tree, A)
                 /\ ~Foreign(tree, A)
                       => /\ Scalars(resp.body) \subseteq VisibleScalars(tree, A)
                          /\ VisibleScalars(tree, A) \ {NoneV} \subseteq Scalars(resp.body)
    /\ SanitizedFor("teacher") => resp.body = resp.request.response

\* a student's result in which a map of another student sat in a list within
\* a map, with a record of the student nested in it, next to a record of the
\* student: the record came back alone
C24_Witness ==
    /\ SanitizedFor("student")
    /\ resp.request.response =
          DictV([result |-> ListV(<<DictV([student_id |-> IntV(3),
                                           grades |-> ListV(<<GradeRecord(2, 1200)>>)]),
                                    GradeRecord(2, 1000)>>)])
    /\ resp.body = DictV([result |-> ListV(<<GradeRecord(2, 1000)>>)])

\* a teacher's result with a record of each student came back as it was
C24_TeacherWitness ==
    /\ SanitizedFor("teacher")
    /\ resp.request.response = ListV(<<GradeRecord(2, 1000), GradeRecord(3, 1850)>>)
    /\ resp.body = resp.request.response

----------------------------------------------------------------------------
\* Guardrail-Pre blocked the run r
BlockedByGuardrailPre(r) ==
    /\ st[r].blocked
    /\ "check_pre_guardrail" \in st[r].calls
    /\ st[r].blocked_reason \in {ReasonDelete, ReasonOtherStudent, ReasonWrite}

\* C25: the extraction stage never produces the intent blocked: in every
\* state of a run the intent is blocked only if Guardrail-Pre blocked the
\* request, so the output of a finished run with intent blocked has
\* blocked = true.
C25_BlockedIntentOnlyFromGuardrail ==
    \A r \in Runs :
        /\ st[r].intent = BLOCKED => BlockedByGuardrailPre(r)
        /\ (Finished(r) /\ run_output(st[r]).intent = BLOCKED) => run_output(st[r]).blocked

\* C25, for the rule-based extractor and for the run Guardrail-Pre blocks: a
\* run that holds the intent blocked and is not blocked took it from the
\* answer of the language model
C25_BlockedIntentFromModelAnswer ==
    \A r \in Runs :
        (st[r].intent = BLOCKED /\ ~BlockedByGuardrailPre(r))
            => /\ "parser.parse" \in st[r].calls
               /\ ~st[r].blocked
               /\ rule_based_parse(st[r].message, st[r].user_id, st[r].role).intent # BLOCKED

\* a finished run with intent blocked that nothing blocked
C25_UnblockedWitness ==
    \E r \in Runs :
        /\ Finished(r) /\ run_output(st[r]).intent = BLOCKED
        /\ ~run_output(st[r]).blocked
        /\ run_output(st[r]).response = DoneText

----------------------------------------------------------------------------
\* a run has started and its request is not answered yet
Started(r) == st[r].pc \notin {"idle", "done", "raised"}

\* an exception has left run_agent
Raised(r) == st[r].pc = "raised"

\* the output of a finished run has a response text
Answered(r) == run_output(st[r]).response \notin {"", Unset}

\* in this step the run r enters, leaves the response formatter
EntersFormatter(r) == st[r].pc # "final_response" /\ st'[r].pc = "final_response"
LeavesFormatter(r) == st[r].pc = "final_response" /\ st'[r].pc # "final_response"

\* the formatter of a run is entered from a stage before it, left for the
\* end of the run only, and the end of a run is reached through it only
FormatterOnce ==
    \A r \in Runs :
        /\ EntersFormatter(r)
              => st[r].pc \in {"check_missing_fields", "execute_tools", "guardrail_post"}
        /\ LeavesFormatter(r) => st'[r].pc = "done" /\ Answered(r)'
        /\ (st[r].pc # "done" /\ st'[r].pc = "done") => st[r].pc = "final_response"

\* C26: every run terminates: whatever the actor id, the message, the
\* outcome of the extractor (its failure included) and the outcome of the
\* operation, no exception leaves run_agent, the run reaches the response
\* formatter exactly once and ends with a non-empty response text.
C26_RunsTerminate ==
    /\ [](\A r \in Runs : ~Raised(r) /\ (Finished(r) => Answered(r)))
    /\ [][FormatterOnce]_vars
    /\ \A r \in Runs : Started(r) ~> Finished(r)

\* C26, but for the construction of the parser: a run ends answered, through
\* the formatter once, or with the exception of get_parser()
C26_RunsTerminateUnlessParserRaises ==
    /\ [](\A r \in Runs : Finished(r) => Answered(r))
    /\ [][FormatterOnce]_vars
    /\ \A r \in Runs : Started(r) ~> (Finished(r) \/ Raised(r))

\* a run of a registered actor that Guardrail-Pre had allowed ended with the
\* exception of get_parser()
C26_RaisedWitness ==
    \E r \in Runs :
        /\ Raised(r) /\ st[r].user_id \in UserIds
        /\ "check_pre_guardrail" \in st[r].calls /\ ~st[r].blocked
        /\ st[r].response = Unset

----------------------------------------------------------------------------
\* the state of a run is the state of its own request: the role is the one
\* of its actor, a student's result holds the student's records only, and a
\* blocked run has no result
OwnState(r) ==
    /\ st[r].role \in {Unset, UserTable[st[r].user_id].role}
    /\ st[r].user_name \in {Unset, UserTable[st[r].user_id].name}
    /\ (st[r].pc \in {"final_response", "done"} /\ IsStudent(st[r].user_id))
          => OwnerValues(st[r].tool_result) \subseteq {IntV(st[r].user_id)}
    /\ st[r].blocked => IsNone(st[r].tool_result)

\* a step changes the state of one run at most, and that run keeps its
\* actor and its message unless the step starts it
OneRunPerStep ==
    \A r \in ConcurrentRuns :
        st'[r] # st[r]
           => /\ \A q \in ConcurrentRuns \ {r} : st'[q] = st[q]
              /\ st'[r].pc # "load_user_context"
                    => /\ st'[r].user_id = st[r].user_id
                       /\ st'[r].message = st[r].message

\* the table changes in a step of the executor of a teacher's run only, and
\* each row written carries the actor of that run
WritesByOwnRun ==
    grades' # grades
       => \E r \in ConcurrentRuns :
             /\ st[r].pc = "execute_tools" /\ st'[r] # st[r]
             /\ st[r].user_id \in TeacherIds
             /\ st[r].intent \in {ADD_GRADE, UPDATE_GRADE}
             /\ \A i \in DOMAIN grades' :
                   (i \notin DOMAIN grades \/ grades'[i] # grades[i])
                      => grades'[i].updated_by = st[r].user_id

\* a blocked run stays blocked, without a result, whatever the other run does
BlockedKept ==
    \A r \in ConcurrentRuns :
        (st[r].blocked /\ st'[r].pc # "load_user_context")
           => st'[r].blocked /\ IsNone(st'[r].tool_result)

\* C27: under every interleaving of the stages of two runs, a teacher's that
\* add or update grades and a student's that query among them, each run
\* writes its own pipeline state only, the ownership invariant and the
\* blocked / tool_result invariant hold for each run, and the grade table is
\* the only state the runs share.
C27_RunsIsolated ==
    /\ [](\A r \in ConcurrentRuns : st[r].pc # "idle" => OwnState(r))
    /\ [][OneRunPerStep /\ WritesByOwnRun /\ BlockedKept /\ resp' = resp]_vars

\* a student's query has ended with no record of the student while a
\* teacher's run, which has updated a grade of another student, is under way
C27_Witness ==
    \E r, q \in ConcurrentRuns :
        /\ st[r].user_id = 2 /\ Finished(r) /\ st[r].intent = QUERY_GRADES
        /\ st[r].tool_result # NoneV /\ st[r].tool_result.v["grades"] = ListV(<<>>)
        /\ st[q].user_id = 1 /\ st[q].pc = "guardrail_post" /\ st[q].intent = UPDATE_GRADE
        /\ \E i \in DOMAIN grades : grades[i].user_id = 3 /\ grades[i].valor = 1850

\* a student's run is blocked while a teacher's run holds the grades of
\* another student
C27_BlockedWitness ==
    \E r, q \in ConcurrentRuns :
        /\ st[r].user_id = 2 /\ st[r].blocked /\ st[r].pc = "final_response"
        /\ st[q].user_id = 1 /\ st[q].pc = "final_response" /\ st[q].intent = QUERY_GRADES
        /\ Truthy(st[q].tool_result.v["grades"])

----------------------------------------------------------------------------
\* the stages that may follow a stage of the graph; an exception that leaves
\* the extraction stage ends the run where it is
StagesAfter(pc) ==
    CASE pc = "load_user_context" -> {"guardrail_pre"}
      [] pc = "guardrail_pre" -> {"parse_intent_and_entities"}
      [] pc = "parse_intent_and_entities" -> {"check_missing_fields", "raised"}
      [] pc = "check_missing_fields" -> {"execute_tools", "final_response"}
      [] pc = "execute_tools" -> {"guardrail_post", "final_response"}
      [] pc = "guardrail_post" -> {"final_response"}
      [] pc = "final_response" -> {"done"}
      [] OTHER -> {"load_user_context"}

\* the resolution and the operations, by the names they are recorded under
ResolutionAndOperations == LaterStages \ {"check_pre_guardrail", "parser.parse", "sanitize_response"}

\* every step of a run takes it to a stage that may follow the one it is at,
\* and the step of Guardrail-Pre reads and writes no table and calls nothing
\* but its check
StageOrder ==
    \A r \in Runs :
        /\ st'[r].pc # st[r].pc => st'[r].pc \in StagesAfter(st[r].pc)
        /\ st[r].pc = "guardrail_pre"
              => /\ grades' = grades /\ st'[r].reads = st[r].reads
                 /\ st'[r].calls \subseteq st[r].calls \cup {"check_pre_guardrail"}
                 /\ st'[r].entities = st[r].entities
                 /\ st'[r].tool_result = st[r].tool_result

\* what has happened in a run by the time a resolution, a query or an
\* operation is recorded, and what has not when Guardrail-Pre blocked it
AfterGuardrailPre(r) ==
    /\ st[r].calls \cap (ResolutionAndOperations \cup {"parser.parse"}) # {}
          => /\ "check_pre_guardrail" \in st[r].calls
             /\ ~BlockedByGuardrailPre(r)
             /\ st[r].pc \notin {"load_user_context", "guardrail_pre"}
    /\ st[r].pc \in {"load_user_context", "guardrail_pre"}
          => /\ st[r].reads \in {<<>>, <<"users">>}
             /\ st[r].tool_result = NoneV /\ st[r].intent = Unset
    /\ BlockedByGuardrailPre(r)
          => /\ st[r].intent = BLOCKED
             /\ "parser.parse" \notin st[r].calls
             /\ st[r].calls \cap ResolutionAndOperations = {}
             /\ st[r].reads = <<"users">>
             /\ st[r].pc \notin {"execute_tools", "guardrail_post"}

\* C28: the stages of a run occur in the order context load, Guardrail-Pre,
\* extraction, field check, then execution or not, then sanitization or not,
\* then response; Guardrail-Pre accesses no table; no resolution, query or
\* operation happens before Guardrail-Pre has allowed the request; and a run
\* Guardrail-Pre blocks never calls the extractor and has the intent blocked.
C28_StageOrder ==
    /\ [](\A r \in Runs : AfterGuardrailPre(r))
    /\ [][StageOrder]_vars

\* a student's request for another student's grades has ended blocked by
\* Guardrail-Pre, with the table holding a grade
C28_Witness ==
    \E r \in Runs :
        /\ Finished(r) /\ BlockedByGuardrailPre(r)
        /\ st[r].message = "Mostra as notas do Rui" /\ st[r].user_id = 2
        /\ st[r].blocked_reason = ReasonOtherStudent
        /\ grades # <<>>

\* a teacher's run has been through every stage
C28_AllStagesWitness ==
    \E r \in Runs :
        /\ Finished(r) /\ ~st[r].blocked
        /\ {"check_pre_guardrail", "parser.parse", "resolve_names_to_ids", "add_grade",
            "sanitize_response"} \subseteq st[r].calls

----------------------------------------------------------------------------
\* the operations that only a teacher may call, and those on one student's data
TeacherOperations == {"add_grade", "update_grade", "get_class_report"}
StudentDataOperations == {"get_grades_by_student", "get_grade_summary"}

\* what Layer 2 decides for an operation from the actor's id, the target and
\* the role the users table records for the actor: the text of the refusal,
\* ErrGeneric for an actor the table does not hold, or Unset
Layer2Decision(op, actor, target) ==
    IF actor \notin DOMAIN UserTable THEN ErrGeneric
    ELSE IF UserTable[actor].role = "teacher" THEN Unset
    ELSE IF op \in TeacherOperations THEN ErrTeacherOnly
    ELSE IF target = IntV(actor) THEN Unset
    ELSE ErrStudentAccess

\* the student whose data the run's operation is called for
TargetOf(state) ==
    GetOr(resolve_names_to_ids(state).entities, "student_id", IntV(state.user_id))

Dispatched(r) ==
    /\ st[r].pc \in {"guardrail_post", "final_response", "done"}
    /\ ToolOf(IntentOf(st[r])) # {} /\ ToolOf(IntentOf(st[r])) \subseteq st[r].calls

Refusals == {ErrTeacherOnly, ErrStudentAccess}

\* C29: the allow/deny outcome of every dispatched operation is a function
\* only of the actor's id, the target and the role the users table records
\* for the actor: whatever role the state carries and whether or not
\* Guardrail-Pre and the field check ran, the operation is refused exactly
\* when that function refuses it, with that refusal.
C29_Layer2Independent ==
    \A r \in Runs :
        Dispatched(r) =>
            LET op == CHOOSE t \in ToolOf(IntentOf(st[r])) : TRUE
                d == Layer2Decision(op, st[r].user_id, TargetOf(st[r]))
            IN  /\ d \in Refusals
                      <=> (st[r].blocked /\ st[r].blocked_reason \in Refusals)
                /\ d \in Refusals
                      => /\ st[r].blocked_reason = d /\ st[r].error = d
                         /\ st[r].tool_result = NoneV
                /\ d = ErrGeneric => st[r].error = ErrGeneric /\ st[r].tool_result = NoneV
                /\ st[r].tool_result # NoneV => d = Unset

\* an operation was refused to a student in a run whose state carried the
\* role teacher and in which Guardrail-Pre had not run
C29_Witness ==
    \E r \in Runs :
        /\ Dispatched(r) /\ IsStudent(st[r].user_id) /\ st[r].role = "teacher"
        /\ "check_pre_guardrail" \notin st[r].calls
        /\ st[r].blocked /\ st[r].blocked_reason = ErrStudentAccess

\* an operation was allowed to a teacher in a run whose state carried the
\* role student
C29_AllowedWitness ==
    \E r \in Runs :
        /\ Dispatched(r) /\ st[r].user_id \in TeacherIds /\ st[r].role = "student"
        /\ st[r].intent = ADD_GRADE /\ st[r].tool_result # NoneV /\ ~st[r].blocked

----------------------------------------------------------------------------
\* the names of a state's entities that the resolution looked up and found
\* no row for
DroppedNames(state) ==
    LET res == resolve_names_to_ids(state)
    IN  IF res.exc # NoExc THEN {}
        ELSE {k \in {"student", "disciplina", "turma"} :
                 /\ (k \o "_name") \in DOMAIN state.entities
                 /\ (k \o "_id") \notin DOMAIN state.entities
                 /\ (k \o "_id") \notin DOMAIN res.entities}

\* a teacher's run has finished after a resolution that dropped a name
TeacherNameDropped(r) ==
    /\ Finished(r) /\ st[r].user_id \in TeacherIds
    /\ "resolve_names_to_ids" \in st[r].calls
    /\ DroppedNames(st[r]) # {}

FailedValidation(r) ==
    ~st[r].blocked /\ st[r].error = ErrValidation /\ st[r].tool_result = NoneV

\* C30: for every intent, when a name of a teacher's request (student_name,
\* disciplina_name, turma_name) matches nothing, the name is dropped without
\* error and the run ends with a validation error that does not block and
\* with no tool_result.
C30_UnresolvedNameFails ==
    \A r \in Runs : TeacherNameDropped(r) => FailedValidation(r)

\* the part of it that holds: the run fails validation when the id the name
\* stands for is one the operation requires (add_grade, class_report)
C30_RequiredNameFails ==
    \A r \in Runs :
        (TeacherNameDropped(r)
         /\ \E k \in DroppedNames(st[r]) :
               \E i \in 1..Len(REQUIRED_FIELDS(IntentOf(st[r]))) :
                   REQUIRED_FIELDS(IntentOf(st[r]))[i] = k \o "_id")
            => FailedValidation(r)

\* a teacher's request to add a grade for a student name that matches
\* nothing has failed validation
C30_AddWitness ==
    \E r \in Runs :
        /\ TeacherNameDropped(r) /\ st[r].intent = ADD_GRADE
        /\ "student" \in DroppedNames(st[r]) /\ FailedValidation(r)

\* a teacher's query for a student name that matches nothing has returned
\* the teacher's own list
C30_QueryWitness ==
    \E r \in Runs :
        /\ TeacherNameDropped(r) /\ st[r].intent = QUERY_GRADES
        /\ "student" \in DroppedNames(st[r])
        /\ st[r].error = Unset /\ st[r].tool_result # NoneV
        /\ st[r].tool_result.v["student"].v["id"] = IntV(st[r].user_id)

----------------------------------------------------------------------------
\* what the transaction scope of a call of Node 5 did with its session
Committed == <<"SessionLocal", "commit", "close">>
RolledBack == <<"SessionLocal", "rollback", "close">>

\* Node 5 has run its with block in the run
ScopeUsed(r) == st[r].scope # <<>>

\* C31: the transaction scope opened for a call of the Operation Executor is
\* committed only when the dispatched operation succeeds, is rolled back
\* whenever the operation raises an exception (authorization, validation or
\* unexpected), and is released on every exit path before control returns
\* to the pipeline.
C31_RollbackOnException ==
    \A r \in Runs :
        ScopeUsed(r) =>
            /\ st[r].error = Unset => st[r].scope = Committed
            /\ st[r].error # Unset => st[r].scope = RolledBack

\* the part of it that holds: the scope is opened once and closed on every
\* path, before the next stage runs
C31_ScopeReleased ==
    \A r \in Runs :
        /\ ScopeUsed(r) <=> "resolve_names_to_ids" \in st[r].calls
        /\ ScopeUsed(r) => st[r].scope = Committed
        /\ st[r].pc \in {"load_user_context", "guardrail_pre", "parse_intent_and_entities",
                         "check_missing_fields", "execute_tools"} => ~ScopeUsed(r)

\* a student's request to add a grade was refused by the tool, and the scope
\* it ran in was committed
C31_CommitAfterRefusal ==
    \E r \in Runs :
        /\ Finished(r) /\ ScopeUsed(r) /\ st[r].intent = ADD_GRADE
        /\ st[r].error = ErrTeacherOnly /\ st[r].scope = Committed

----------------------------------------------------------------------------
\* the step is a call of add_grade or update_grade that raised
WriteRaised == resp'.op \in {"add_grade", "update_grade"} /\ resp'.exc # NoExc

\* C32: a failed operation leaves the gradebook unchanged: whenever add_grade
\* or update_grade raises, the set of grade records and every field of every
\* record, last-modified-by included, are as before the call; and a record
\* is added or changed only by a call that returns.
C32_FailedWriteChangesNothing ==
    [][/\ WriteRaised => grades' = grades
       /\ grades' # grades => resp'.exc = NoExc]_vars

\* update_grade has raised for a value above 20 given with a module and a
\* description, and the record it names is as add_grade wrote it
C32_Witness ==
    /\ resp.op = "update_grade" /\ resp.exc = "ValidationError"
    /\ resp.request.valor = FloatV(2001) /\ resp.request.modulo = StrV("M2")
    /\ resp.request.descricao = StrV("T2") /\ resp.request.grade_id = IntV(1)
    /\ 1 \in DOMAIN grades
    /\ grades[1].modulo = "M1" /\ grades[1].descricao = "T1" /\ grades[1].updated_by = 1

\* add_grade has raised for a student that does not exist, with a record in
\* the table
C32_AddWitness ==
    /\ resp.op = "add_grade" /\ resp.exc = "ValidationError"
    /\ resp.request.student_id = IntV(7) /\ grades # <<>>

----------------------------------------------------------------------------
\* Guardrail-Pre has answered for a student and the message
CheckedFor(user_id, message) ==
    /\ resp.op = "check_pre_guardrail"
    /\ resp.request.user_id = user_id /\ resp.request.message = message

\* C33: a student's request for their own grades is never blocked: a message
\* that uses a first-person possessive for the grades and also names a
\* subject or a module, or that asks for the student's own average, is
\* allowed by Guardrail-Pre.
C33_OwnGradesAllowed ==
    \A user_id \in StudentIds, message \in OwnGradesMessages \cup OwnGradesOfMessages :
        CheckedFor(user_id, message) => resp.body.allowed

\* the part of it that holds: the request is allowed when no "de", "do" or
\* "da" and a word follow "notas" or "média"
C33_PlainOwnGradesAllowed ==
    \A user_id \in StudentIds, message \in OwnGradesMessages :
        CheckedFor(user_id, message) => resp.body.allowed

\* a student's request for their own grades of a subject has been blocked as
\* a request for another student's data
C33_BlockedWitness ==
    /\ CheckedFor(2, "Quero ver as minhas notas de Matemática")
    /\ ~resp.body.allowed /\ resp.body.reason = ReasonOtherStudent

\* a student's request for their own average has been allowed
C33_AllowedWitness ==
    CheckedFor(2, "Qual é a minha média?") /\ resp.body.allowed

----------------------------------------------------------------------------
\* C34: for a student with id A, Guardrail-Pre blocks every message that
\* gives "student_id = N" or "student_id: N" with N different from A, and
\* allows the same message when N = A (no other pattern matching it).
C34_StudentIdBlocked ==
    \A user_id \in StudentIds, form \in StudentIdForms, n \in StudentIdNumbers :
        CheckedFor(user_id, StudentIdMessage(form, n))
            => (resp.body.allowed <=> n = user_id)

\* the numeral of N starts with the numeral of A
StartsWith(n, a) ==
    /\ Len(IntToStr(n)) >= Len(IntToStr(a))
    /\ SubSeq(IntToStr(n), 1, Len(IntToStr(a))) = IntToStr(a)

\* what holds: the message is allowed exactly when the numeral of N starts
\* with the numeral of A
C34_StudentIdBlockedUnlessPrefix ==
    \A user_id \in StudentIds, form \in StudentIdForms, n \in StudentIdNumbers :
        CheckedFor(user_id, StudentIdMessage(form, n))
            => (resp.body.allowed <=> StartsWith(n, user_id))

\* student 2 has given the id of user 23 and was allowed
C34_PrefixWitness ==
    CheckedFor(2, StudentIdMessage("student_id = ", 23)) /\ resp.body.allowed

\* student 2 has given the id of student 3 and was blocked
C34_BlockedWitness ==
    /\ CheckedFor(2, StudentIdMessage("student_id: ", 3))
    /\ ~resp.body.allowed /\ resp.body.reason = ReasonOtherStudent

----------------------------------------------------------------------------
\* every map of the tree that carries an owner key has it equal to A
OwnTree(x, A) == OwnerValues(x) \subseteq {IntV(A)}

\* C35: sanitization preserves the requester's own data: for a student A and
\* a result tree in which every map that carries an owner key has it equal
\* to A, sanitize returns a tree equal to its input, fields whose value is
\* null and null list elements included.
C35_OwnDataPreserved ==
    SanitizedFor("student")
        => (OwnTree(resp.request.response, resp.request.user_id)
               => resp.body = resp.request.response)

\* the part of it that holds: the tree comes back as it was when no field
\* and no list element of it is null
C35_OwnDataWithoutNullPreserved ==
    SanitizedFor("student")
        => ((/\ OwnTree(resp.request.response, resp.request.user_id)
             /\ (NoneV \notin Scalars(resp.request.response)
                 \/ resp.request.response = NoneV))
               => resp.body = resp.request.response)

\* a student's own record next to a null field came back without the field
C35_NullFieldDropped ==
    /\ SanitizedFor("student") /\ resp.request.user_id = 2
    /\ resp.request.response = DictV([data |-> GradeRecord(2, 1000), more |-> NoneV])
    /\ resp.body = DictV([data |-> GradeRecord(2, 1000)])

\* a student's own records in a list within a map came back as they were
C35_PreservedWitness ==
    /\ SanitizedFor("student") /\ resp.request.user_id = 2
    /\ resp.request.response = DictV([result |-> ListV(<<GradeRecord(2, 1000),
                                                         GradeRecord(2, 1000)>>)])
    /\ resp.body = resp.request.response

----------------------------------------------------------------------------
\* the step is a call of the sanitizer on what its last call returned, for
\* the same requester
SanitizesAgain ==
    /\ resp.op = "sanitize_response" /\ resp'.op = "sanitize_response"
    /\ resp'.request.user_id = resp.request.user_id
    /\ resp'.request.response = resp.body

\* C36: sanitization is idempotent: for every role, actor id and result
\* tree, sanitize(sanitize(t)) equals sanitize(t); and every call of the
\* sanitizer returns a tree that a further call returns unchanged.
C36_SanitizeIdempotent ==
    /\ [](resp.op = "sanitize_response"
             => sanitize_response(resp.request.user_id,
                                  UserTable[resp.request.user_id].role, resp.body)
                   = resp.body)
    /\ [][SanitizesAgain => resp'.body = resp.body]_vars

\* the sanitizer was called a second time for a student, on a tree that only
\* a first call makes, and returned it as it was
C36_Witness ==
    /\ SanitizedFor("student") /\ resp.request.user_id = 2
    /\ resp.request.response \notin Results2
    /\ resp.body = resp.request.response
    /\ Maps(resp.body) > 0

----------------------------------------------------------------------------
\* the requester of a call of a tool, and the student it is called for
RequesterOf(request) ==
    IF "teacher_id" \in DOMAIN request THEN request.teacher_id ELSE request.requester_id

\* a tool has been called by a student
CalledByStudent(ops) == resp.op \in ops /\ IsStudent(RequesterOf(resp.request))

\* the call was refused with the exception, after the query for the
\* requester's row and no other, and returned nothing
RefusedFirst(exc) ==
    resp.exc = exc /\ resp.body.reads = <<"users">> /\ resp.body.result = NoneV

\* C37: every operation checks the authorization before it looks its target
\* up: a student who calls add_grade, update_grade or class_report gets
\* TeacherOnlyError, and a student who calls query_grades or summary for
\* another id gets StudentAccessDenied, whether or not the target student,
\* grade, subject or class exists; no table but the users table, for the
\* requester's row, has been queried by then, and the grades are as before.
C37_NoExistenceOracle ==
    /\ [](/\ CalledByStudent(TeacherOperations) => RefusedFirst("TeacherOnlyError")
          /\ (/\ CalledByStudent(StudentDataOperations)
              /\ resp.request.student_id # IntV(RequesterOf(resp.request)))
                => RefusedFirst("StudentAccessDenied"))
    /\ [][(resp.op = "call" /\ IsStudent(RequesterOf(resp.request.args)))
              => grades' = grades]_vars

\* a student has asked for the grades of a student that does not exist, with
\* a grade in the table, and was refused as for one that exists
C37_Witness ==
    /\ CalledByStudent({"get_grades_by_student"})
    /\ resp.request.student_id = IntV(7)
    /\ RefusedFirst("StudentAccessDenied") /\ grades # <<>>

\* a student has called update_grade for a grade that does not exist
C37_UpdateWitness ==
    /\ CalledByStudent({"update_grade"}) /\ resp.request.grade_id = IntV(7)
    /\ RefusedFirst("TeacherOnlyError")

\* a teacher's call for the same student was answered by the lookup
C37_TeacherWitness ==
    /\ resp.op = "get_grades_by_student" /\ resp.request.requester_id = 1
    /\ resp.request.student_id = IntV(7) /\ resp.exc = "ValidationError"

----------------------------------------------------------------------------
\* the intents of the operations that only a teacher may call
TeacherIntents == {ADD_GRADE, UPDATE_GRADE, CLASS_REPORT}

\* a student's run has ended with the intent of a teacher's operation
StudentTeacherIntent(r) ==
    Finished(r) /\ IsStudent(st[r].user_id) /\ st[r].intent \in TeacherIntents

\* C38: every conversational run by a student whose extracted intent is
\* add_grade, update_grade or class_report ends with blocked=true, whatever
\* entities were extracted and whether or not Guardrail-Pre matched the
\* message.
C38_StudentWriteIntentBlocked ==
    \A r \in Runs : StudentTeacherIntent(r) => st[r].blocked

\* the part of it that holds: the run ends blocked unless a required field
\* is missing, and in either case nothing is returned and no operation but
\* the refused one was called
C38_BlockedUnlessFieldsMissing ==
    \A r \in Runs :
        StudentTeacherIntent(r)
            => /\ st[r].blocked <=> ~st[r].ask_missing_fields
               /\ st[r].blocked => st[r].blocked_reason = ErrTeacherOnly
               /\ st[r].ask_missing_fields => "resolve_names_to_ids" \notin st[r].calls
               /\ st[r].tool_result = NoneV

\* a student's run with the intent add_grade and no entities has ended with
\* the request for the missing fields, not blocked
C38_AskedWitness ==
    \E r \in Runs :
        /\ StudentTeacherIntent(r) /\ st[r].intent = ADD_GRADE
        /\ st[r].entities = EmptyDict
        /\ st[r].ask_missing_fields /\ ~st[r].blocked /\ st[r].error = Unset

\* a student's run with the intent update_grade and a grade id has ended
\* blocked by the tool
C38_BlockedWitness ==
    \E r \in Runs :
        /\ StudentTeacherIntent(r) /\ st[r].intent = UPDATE_GRADE
        /\ st[r].blocked /\ st[r].blocked_reason = ErrTeacherOnly

----------------------------------------------------------------------------
\* the terminal outcomes of a run that hold in its state
Outcomes(state) ==
    {o \in {"blocked", "ask_missing_fields", "error", "tool_result"} :
        \/ o = "blocked" /\ state.blocked
        \/ o = "ask_missing_fields" /\ state.ask_missing_fields
        \/ o = "error" /\ state.error # Unset /\ ~state.blocked
        \/ o = "tool_result" /\ state.tool_result # NoneV}

\* the response text by the precedence of the outcomes
ResponseByPrecedence(state) ==
    IF state.blocked THEN state.blocked_reason
    ELSE IF state.error # Unset THEN state.error
    ELSE IF state.ask_missing_fields THEN MissingPrompt(state.missing_fields)
    ELSE IF IntentOf(state) = FALLBACK THEN HelpText
    ELSE IF state.tool_result # NoneV
    THEN format_result(IntentOf(state), state.tool_result)
    ELSE DoneText

\* C39: the terminal outcomes of a run are mutually exclusive: in every
\* final state at most one of blocked, ask_missing_fields, an error with
\* blocked false, and a tool_result that is not null holds; and the response
\* text is chosen with the precedence blocked reason, error, prompt for the
\* missing fields, help text for fallback, formatted result.
C39_OutcomesExclusive ==
    \A r \in Runs :
        Finished(r)
            => /\ Cardinality(Outcomes(st[r])) <= 1
               /\ st[r].response = ResponseByPrecedence(st[r])
               /\ st[r].blocked => st[r].blocked_reason # Unset

\* a run has ended with an error that does not block, and answers with it
C39_Witness ==
    \E r \in Runs :
        /\ Finished(r) /\ Outcomes(st[r]) = {"error"}
        /\ st[r].response = ErrValidation /\ st[r].intent = ADD_GRADE

\* runs have ended blocked with a fallback intent, asking for fields, with a
\* result, and with none of the outcomes
C39_BlockedFallbackWitness ==
    \E r \in Runs :
        /\ Finished(r) /\ Outcomes(st[r]) = {"blocked"} /\ IntentOf(st[r]) = FALLBACK
        /\ st[r].response = ErrUserNotFound
C39_AskWitness ==
    \E r \in Runs : Finished(r) /\ Outcomes(st[r]) = {"ask_missing_fields"}
C39_ResultWitness ==
    \E r \in Runs : Finished(r) /\ Outcomes(st[r]) = {"tool_result"}
C39_NoOutcomeWitness ==
    \E r \in Runs : Finished(r) /\ Outcomes(st[r]) = {} /\ st[r].response = HelpText

====
